---------------------------- MODULE Spec2Model ----------------------------
(***************************************************************************)
(* A model of the QR utility's core: the retry executor (withRetry), the   *)
(* diagnostic probe battery (DiagnosticModule.runDiagnostics and its nine  *)
(* checks) and the generator's retry and history handling (generateQR,     *)
(* saveToHistory).                                                         *)
(*                                                                         *)
(* Three specifications share the module's variables; each one moves its   *)
(* own part of the state and leaves the rest at its initial value:         *)
(*   SpecRetry  one call of withRetry, its arguments and the outcomes of   *)
(*              the wrapped operation drawn from small sets;               *)
(*   SpecDiag   one mount of DiagnosticModule, every check's outcome drawn *)
(*              from the results its code can produce;                     *)
(*   SpecGen    the QRGenerator component: mount, typing, Generate clicks, *)
(*              encode outcomes, backoff waits and retry timers.           *)
(***************************************************************************)
EXTENDS Integers, Sequences, FiniteSets, TLC

VARIABLES
    \* ---- withRetry (src/src/utils/validation.ts:244-267)
    w,            \* the frame of the withRetry call: arguments, locals, position
    opLog,        \* observer: outcome of every invocation of the operation, in order
    waitLog,      \* observer: duration of every backoff wait, in order
    \* ---- DiagnosticModule (src/src/components/DiagnosticModule.tsx:12-55)
    results,      \* useState results
    isRunning,    \* useState isRunning
    isComplete,   \* useState isComplete
    dpc,          \* position of runDiagnostics
    di,           \* loop index i of runDiagnostics (1-based)
    inFlight,     \* observer: checks whose promise has been created and not settled
    startLog,     \* observer: the checks invoked so far, in order
    thrown,       \* observer: what each check that threw has thrown
    botPassing,   \* observer: <<heuristics.filter(Boolean).length>> once checkBotDetection ran
    liveTracks,   \* the media tracks acquired through getUserMedia and not stopped
    acquired,     \* observer: every media track acquired so far
    \* ---- QRGenerator (src/src/components/DiagnosticModule.tsx:467-625)
    mounted,      \* the load effect has run
    text,         \* useState text
    qrCodeUrl,    \* useState qrCodeUrl
    isGenerating, \* useState isGenerating
    retryCount,   \* useState retryCount
    qrHistory,    \* useState qrHistory
    storage,      \* localStorage item 'qrHistory'
    runs,         \* the generateQR invocations: closure, withRetry frame, position
    timers,       \* pending setTimeout(() => generateQR(), 1000) callbacks
    nextId,       \* observer: number of history entries created, source of fresh ids
    clicks,       \* observer: number of Generate clicks so far
    encodeCalls,  \* observer: QRCode.toDataURL calls caused by each click
    genRuns,      \* observer: generateQR invocations caused by each click
    finalError,   \* observer: clicks whose 'Failed to generate QR code' toast was shown
    selectedTemplate, \* useState selectedTemplate (the template's id)
    validationError,  \* useState validationError
    debounce,     \* pending timers of the debounced validators, in the order set
    debInst,      \* the debounced validator in use: one is made per selectedTemplate change
    edits,        \* observer: number of edits of the input (typing, template choice, load)
    saveToast,    \* observer: the error toast of the last saveToHistory, if it showed one
    loaded,       \* observer: the content loadFromHistory put in the input, until it is edited
    \* ---- one call of a sanitizer, validator or formatter (validation.ts:18-186)
    arg,          \* the input string of the call
    applied,      \* the function called ("none" before the call)
    opts,         \* the ValidationOptions of a validate.text call
    ret,          \* what the call returned
    \* ---- safeLocalStorage over window.localStorage (validation.ts:270-300)
    localStorage, \* the items of the origin's storage, by key
    storeCall,    \* the last safeLocalStorage call: arguments, what the storage did, outcome
    written,      \* observer: per key, the value of the last set that succeeded, if still stored
    \* ---- Home, the page-level diagnostics gate (src/src/app/page.tsx:8-172)
    pageMounted, \* whether Home is mounted
    showDiagnostics, \* useState showDiagnostics
    diagnosticsComplete, \* useState diagnosticsComplete
    diagnosticResults, \* useState diagnosticResults
    pagePc, \* position of the page's runDiagnostics and of its timers
    pageResults, \* the local array results of runDiagnostics
    hasMediaDevices, \* whether navigator.mediaDevices.getUserMedia exists
    \* ---- QRScanner (src/src/components/QRScanner.tsx:10-71)
    scanMounted, \* whether QRScanner is mounted (videoRef.current is the video element)
    isScanning, \* useState isScanning
    scanResult, \* useState result
    scanError, \* useState error
    scannerRef, \* scannerRef.current: 0 for null, else the number of the instance
    instances, \* every QrScanner instance created so far, in order of creation
    lastDecode, \* observer: the last decode callback since the last Start click
    \* ---- utils.debounce and utils.throttle (src/src/utils/validation.ts:331-355)
    now, \* the time, in units of the clock
    debWait, \* the argument wait of utils.debounce
    debTimers, \* the pending timers set by the debounced function
    debCalls, \* observer: the calls of the debounced function, in order
    debRuns, \* observer: the invocations of func by debounce's timers, in order
    thrLimit, \* the argument limit of utils.throttle
    inThrottle, \* the local inThrottle of utils.throttle
    thrTimers, \* the pending timers set by the throttled function
    thrCalls \* observer: the calls of the throttled function, in order

retryVars == <<w, opLog, waitLog>>
diagVars == <<results, isRunning, isComplete, dpc, di, inFlight, startLog, thrown,
              botPassing, liveTracks, acquired>>
genVars == <<mounted, text, qrCodeUrl, isGenerating, retryCount, qrHistory, storage,
             runs, timers, nextId, clicks, encodeCalls, genRuns, finalError,
             selectedTemplate, validationError, debounce, debInst, edits,
             saveToast, loaded>>
noteVars == <<saveToast, loaded>>
inputVars == <<selectedTemplate, validationError, debounce, debInst, edits>>
fnVars == <<arg, applied, opts, ret>>
storeVars == <<localStorage, storeCall, written>>
pageVars == <<pageMounted, showDiagnostics, diagnosticsComplete, diagnosticResults, pagePc, pageResults, hasMediaDevices>>
scanVars == <<scanMounted, isScanning, scanResult, scanError, scannerRef, instances, lastDecode>>
utilVars == <<now, debWait, debTimers, debCalls, debRuns, thrLimit, inThrottle, thrTimers, thrCalls>>
vars == <<retryVars, diagVars, genVars, fnVars, storeVars, pageVars, scanVars, utilVars>>

Undefined == "undefined"

Min(a, b) == IF a <= b THEN a ELSE b

(***************************************************************************)
(* Bounds of the model.                                                    *)
(***************************************************************************)
\* largest maxRetries argument tried on withRetry
MaxAttempts == 4
\* longest history list found in storage at mount
MaxStored == 11
\* checks of one battery run that end failed or skipped
MaxNotPassed == 3
\* Generate clicks in one behaviour
MaxClicks == 2
\* generateQR invocations in one behaviour (the clicks' own and their retries)
MaxRuns == 4
\* pieces an input of the sanitizers is put together from
MaxTokens == 3
\* comma-separated parts of a wifi or contact input
MaxParts == 3
\* what the user does to the generator in one behaviour: edits of the input
\* (text typed, template chosen) and Generate clicks together
MaxUserActions == 3

(***************************************************************************)
(* withRetry                                                               *)
(***************************************************************************)
\* the values the wrapped operation may resolve with
Values == {"v1", "v2"}
\* the errors the wrapped operation may reject with
Errors == {"e1", "e2"}
\* delay arguments tried (1000 is the default, 500 is what generateQR passes)
Delays == {500, 1000}
\* maxRetries arguments tried, the non-positive ones included
RetryCounts == (0 - 1)..MaxAttempts

\* the frame before the call
NoCall == [pc |-> "none", maxRetries |-> 0, delay |-> 0, attempt |-> 0,
           lastError |-> Undefined, timer |-> 0, settled |-> Undefined]

\* delay * Math.pow(2, attempt - 1) with the exponent off by one
BackoffDelayOffByOne(delay, attempt) == delay * (2 ^ attempt)

\* delay * Math.pow(2, attempt - 1)
BackoffDelay(delay, attempt) == delay * (2 ^ (attempt - 1))

\* throw lastError, with the first error kept instead of the latest
RecordErrorKeepFirst(frame, error) ==
    IF frame.lastError = Undefined THEN error ELSE frame.lastError

\* lastError = error
RecordError(frame, error) == error

\* the loop entered without its test (the body first, as in do ... while)
WithRetryLoopBodyFirst(frame) == [frame EXCEPT !.pc = "calling"]

\* the loop test `attempt <= maxRetries` and what follows it: the operation is
\* invoked, or the loop is left and lastError thrown
WithRetryLoop(frame) ==
    IF frame.attempt <= frame.maxRetries
    THEN [frame EXCEPT !.pc = "calling"]
    ELSE [frame EXCEPT !.pc = "rejected", !.settled = frame.lastError]

\* the call: `let lastError; for (let attempt = 1; ...`
WithRetryEnter(maxRetries, delay) ==
    WithRetryLoop([pc |-> "enter", maxRetries |-> maxRetries, delay |-> delay,
                   attempt |-> 1, lastError |-> Undefined, timer |-> 0,
                   settled |-> Undefined])

\* `return await operation()` when the operation resolves with value
WithRetryOnResolve(frame, value) ==
    [frame EXCEPT !.pc = "resolved", !.settled = value]

\* the `if (attempt === maxRetries) break;` test
IsLastAttempt(frame) == frame.attempt = frame.maxRetries

\* the catch block when the operation rejects with error
WithRetryOnReject(frame, error) ==
    LET caught == [frame EXCEPT !.lastError = RecordError(frame, error)] IN
    IF IsLastAttempt(caught)
    THEN [caught EXCEPT !.pc = "rejected", !.settled = caught.lastError]
    ELSE [caught EXCEPT !.pc = "waiting",
                        !.timer = BackoffDelay(caught.delay, caught.attempt)]

\* the backoff timer fires: attempt++ and the loop test
WithRetryOnTimeout(frame) ==
    WithRetryLoop([frame EXCEPT !.attempt = frame.attempt + 1])

\* ---- the specification of one withRetry call
RetryOnly == UNCHANGED <<diagVars, genVars, fnVars, storeVars, pageVars, scanVars, utilVars>>

RetryIdleInit == w = NoCall /\ opLog = <<>> /\ waitLog = <<>>

\* withRetry(operation, maxRetries, delay) is called
CallWithRetry ==
    /\ w.pc = "none"
    /\ \E m \in RetryCounts, d \in Delays : w' = WithRetryEnter(m, d)
    /\ UNCHANGED <<opLog, waitLog>>
    /\ RetryOnly

\* the operation's promise resolves
OperationResolves ==
    /\ w.pc = "calling"
    /\ \E v \in Values :
          /\ w' = WithRetryOnResolve(w, v)
          /\ opLog' = Append(opLog, [ok |-> TRUE, val |-> v])
    /\ UNCHANGED waitLog
    /\ RetryOnly

\* the operation's promise rejects
OperationRejects ==
    /\ w.pc = "calling"
    /\ \E e \in Errors :
          /\ w' = WithRetryOnReject(w, e)
          /\ opLog' = Append(opLog, [ok |-> FALSE, val |-> e])
          /\ waitLog' = IF w'.pc = "waiting"
                        THEN Append(waitLog, w'.timer)
                        ELSE waitLog
    /\ RetryOnly

\* the backoff setTimeout fires
BackoffElapses ==
    /\ w.pc = "waiting"
    /\ w' = WithRetryOnTimeout(w)
    /\ UNCHANGED <<opLog, waitLog>>
    /\ RetryOnly

NextRetry ==
    \/ CallWithRetry
    \/ OperationResolves
    \/ OperationRejects
    \/ BackoffElapses

(***************************************************************************)
(* The diagnostic battery                                                  *)
(***************************************************************************)
\* the names of the `checks` list, in its order
CheckNames == <<"WebRTC Support", "WebGL Support", "Service Workers",
                "IndexedDB Support", "Audio Context", "Camera Permissions",
                "Microphone Permissions", "Notification Permissions",
                "Bot Detection">>
NumChecks == Len(CheckNames)
Terminal == {"passed", "failed", "skipped"}

\* the messages of the Error objects a browser call may throw
ErrorMessages == {"boom"}

\* a DiagnosticResult without details, and one with
Res(name, status, message) ==
    [name |-> name, status |-> status, message |-> message, details |-> Undefined]
ResD(name, status, message, details) ==
    [name |-> name, status |-> status, message |-> message, details |-> details]

\* what a check may throw: an Error with a message, or a value that is no Error
Throwables ==
    {[isError |-> TRUE, message |-> m] : m \in ErrorMessages}
        \cup {[isError |-> FALSE, message |-> Undefined]}

checkWebRTC ==
    {Res("WebRTC Support", "passed", "WebRTC is supported"),
     Res("WebRTC Support", "failed", "WebRTC not supported")}

checkWebGL ==
    {Res("WebGL Support", "passed", "WebGL is supported"),
     Res("WebGL Support", "failed", "WebGL not supported"),
     Res("WebGL Support", "failed", "WebGL check failed")}

checkServiceWorkers ==
    {Res("Service Workers", "passed", "Service Workers supported"),
     Res("Service Workers", "failed", "Service Workers not supported")}

checkIndexedDB ==
    {Res("IndexedDB Support", "passed", "IndexedDB is supported"),
     Res("IndexedDB Support", "failed", "IndexedDB not supported")}

checkAudioContext ==
    {Res("Audio Context", "passed", "Audio Context supported"),
     Res("Audio Context", "failed", "Audio Context not supported"),
     Res("Audio Context", "failed", "Audio Context check failed")}

checkCameraPermissions ==
    {Res("Camera Permissions", "failed", "Camera API not supported"),
     Res("Camera Permissions", "passed", "Camera access granted"),
     ResD("Camera Permissions", "failed", "Camera access denied",
          "Please allow camera access in your browser settings"),
     Res("Camera Permissions", "skipped", "No camera detected")}
        \cup {ResD("Camera Permissions", "failed", "Camera check failed", m) :
                 m \in ErrorMessages}

checkMicrophonePermissions ==
    {Res("Microphone Permissions", "failed", "Audio API not supported"),
     Res("Microphone Permissions", "passed", "Microphone access granted"),
     ResD("Microphone Permissions", "failed", "Microphone access denied",
          "Please allow microphone access in your browser settings"),
     Res("Microphone Permissions", "skipped", "No microphone detected")}
        \cup {ResD("Microphone Permissions", "failed", "Microphone check failed", m) :
                 m \in ErrorMessages}

checkNotificationPermissions ==
    {Res("Notification Permissions", "failed", "Notifications not supported"),
     Res("Notification Permissions", "passed", "Notifications enabled"),
     ResD("Notification Permissions", "failed", "Notifications blocked",
          "Please enable notifications in your browser settings"),
     ResD("Notification Permissions", "failed", "Notifications denied",
          "Notifications are required for some features")}
        \cup {ResD("Notification Permissions", "failed", "Notification check failed", m) :
                 m \in ErrorMessages}

\* heuristics.filter(Boolean).length
CountTrue(h) == Cardinality({j \in DOMAIN h : h[j]})

\* humanScore >= tenths/10, where humanScore = passing / total.  The quotient
\* and the literal are both the double nearest to the exact value, so for
\* these small integers the comparison of doubles is the exact comparison.
ScoreAtLeastStrict(passing, total, tenths) == 10 * passing > tenths * total
ScoreAtLeast(passing, total, tenths) == 10 * passing >= tenths * total

\* the if / else-if / else over humanScore
BotResult(h) ==
    IF ScoreAtLeast(CountTrue(h), Len(h), 7)
    THEN Res("Bot Detection", "passed", "Human interaction detected")
    ELSE IF ScoreAtLeast(CountTrue(h), Len(h), 4)
         THEN Res("Bot Detection", "skipped", "Uncertain detection result")
         ELSE Res("Bot Detection", "failed", "Automated interaction suspected")

\* the five pushes of checkBotDetection: timing, mouse, WebGL, concurrency, user agent
HeuristicArrays == [1..5 -> BOOLEAN]

\* the results check number i may return, the bot check excepted
CheckReturns(i) ==
    CASE i = 1 -> checkWebRTC
      [] i = 2 -> checkWebGL
      [] i = 3 -> checkServiceWorkers
      [] i = 4 -> checkIndexedDB
      [] i = 5 -> checkAudioContext
      [] i = 6 -> checkCameraPermissions
      [] i = 7 -> checkMicrophonePermissions
      [] i = 8 -> checkNotificationPermissions
      [] OTHER -> {}

BotCheck == 9

\* the checks that call getUserMedia, and what each asks for
CameraCheck == 6
MicrophoneCheck == 7
MediaChecks == {CameraCheck, MicrophoneCheck}
MediaKind(i) == IF i = CameraCheck THEN "video" ELSE "audio"
\* the streams getUserMedia may resolve with: one track of the kind, or two
Streams(i) ==
    {{[kind |-> MediaKind(i), n |-> 1]},
     {[kind |-> MediaKind(i), n |-> 1], [kind |-> MediaKind(i), n |-> 2]}}

\* stream.getTracks()[0].stop(): only the first track stopped
StopFirstTrack(tracks) ==
    {t \in tracks : \E u \in tracks : u.n < t.n}

\* stream.getTracks().forEach(track => track.stop()): the tracks of the
\* stream that are still live afterwards
StopTracks(tracks) == {}

\* the checks whose body is not wrapped in a try/catch of its own: an
\* exception of a browser call made by them leaves the check function
MayThrow == {3, 4, BotCheck}

\* checks.map(check => ({ name, status: 'pending', message: 'Checking...' })),
\* with the entries created terminal
InitialResultsPassed ==
    [j \in 1..NumChecks |-> Res(CheckNames[j], "passed", "Checking...")]

\* checks.map(check => ({ name, status: 'pending', message: 'Checking...' }))
InitialResults ==
    [j \in 1..NumChecks |-> Res(CheckNames[j], "pending", "Checking...")]

\* prev.map((r, idx) => idx === i ? result : r), with `<=` for `===`
RecordResultUpTo(prev, i, result) ==
    [idx \in DOMAIN prev |-> IF idx <= i THEN result ELSE prev[idx]]

\* prev.map((r, idx) => idx === i ? result : r)
RecordResult(prev, i, result) ==
    [idx \in DOMAIN prev |-> IF idx = i THEN result ELSE prev[idx]]

\* the details of the catch block, with the message dropped
CaughtDetailsUnknown(e) == "Unknown error"

\* error instanceof Error ? error.message : 'Unknown error'
CaughtDetails(e) == IF e.isError THEN e.message ELSE "Unknown error"

\* the result the catch block of runDiagnostics records
CaughtResult(i, e) == ResD(CheckNames[i], "failed", "Check failed", CaughtDetails(e))

\* the loop's i++, skipping a check
NextIndexSkip(i) == i + 2

\* the loop's i++
NextIndex(i) == i + 1

\* the summary counts, derived from results at read time
passedCount == Cardinality({j \in DOMAIN results : results[j].status = "passed"})
failedCount == Cardinality({j \in DOMAIN results : results[j].status = "failed"})
skippedCount == Cardinality({j \in DOMAIN results : results[j].status = "skipped"})
pendingCount == Cardinality({j \in DOMAIN results : results[j].status = "pending"})

\* the environment lets at most MaxNotPassed checks end failed or skipped
MayNotPass == failedCount + skippedCount < MaxNotPassed

DiagOnly == UNCHANGED <<retryVars, genVars, fnVars, storeVars, pageVars, scanVars, utilVars>>

DiagIdleInit ==
    /\ results = <<>>
    /\ isRunning = FALSE
    /\ isComplete = FALSE
    /\ dpc = "unmounted"
    /\ di = 0
    /\ inFlight = {}
    /\ startLog = <<>>
    /\ thrown = <<>>
    /\ botPassing = <<>>
    /\ liveTracks = {}
    /\ acquired = {}

\* the loop test and what follows it, without setIsRunning(false) after the
\* loop
LoopFromStillRunning(i, flying, log, running) ==
    /\ di' = i
    /\ isRunning' = running
    /\ IF i <= NumChecks
       THEN /\ dpc' = "awaitCheck"
            /\ inFlight' = flying \cup {i}
            /\ startLog' = Append(log, i)
            /\ UNCHANGED isComplete
       ELSE /\ dpc' = "done"
            /\ inFlight' = flying
            /\ startLog' = log
            /\ isComplete' = TRUE

\* the loop test `i < checks.length` and what follows it: checks[i].check() is
\* invoked and awaited, or the loop is left and the battery marked complete
LoopFrom(i, flying, log, running) ==
    /\ di' = i
    /\ IF i <= NumChecks
       THEN /\ dpc' = "awaitCheck"
            /\ inFlight' = flying \cup {i}
            /\ startLog' = Append(log, i)
            /\ isRunning' = running
            /\ UNCHANGED isComplete
       ELSE /\ dpc' = "done"
            /\ inFlight' = flying
            /\ startLog' = log
            /\ isRunning' = FALSE
            /\ isComplete' = TRUE

\* the mount effect: runDiagnostics() up to its first await
RunDiagnostics ==
    /\ dpc = "unmounted"
    /\ results' = InitialResults
    /\ LoopFrom(1, inFlight, startLog, TRUE)
    /\ UNCHANGED <<thrown, botPassing, liveTracks, acquired>>
    /\ DiagOnly

\* getUserMedia of the camera or microphone check resolves with a stream:
\* its tracks are live
GetUserMediaResolves ==
    /\ dpc = "awaitCheck"
    /\ di \in MediaChecks
    /\ liveTracks = {}
    /\ \E stream \in Streams(di) :
          /\ liveTracks' = stream
          /\ acquired' = acquired \cup stream
    /\ UNCHANGED <<results, isRunning, isComplete, dpc, di, inFlight, startLog, thrown,
                   botPassing>>
    /\ DiagOnly

\* the awaited check resolves with a result: it is recorded and the 300 ms
\* delay starts.  The camera and microphone checks pass when getUserMedia gave
\* them a stream, whose tracks they stop before they return, and do not pass
\* when it gave none
CheckResolves ==
    /\ dpc = "awaitCheck"
    /\ di # BotCheck
    /\ \E r \in CheckReturns(di) :
          /\ r.status = "passed" \/ MayNotPass
          /\ di \in MediaChecks => (r.status = "passed" <=> liveTracks # {})
          /\ results' = RecordResult(results, di, r)
    /\ liveTracks' = IF di \in MediaChecks THEN StopTracks(liveTracks) ELSE liveTracks
    /\ dpc' = "delay"
    /\ inFlight' = inFlight \ {di}
    /\ UNCHANGED <<isRunning, isComplete, di, startLog, thrown, botPassing, acquired>>
    /\ DiagOnly

\* checkBotDetection resolves: the five heuristics are whatever the
\* environment made them
BotCheckResolves ==
    /\ dpc = "awaitCheck"
    /\ di = BotCheck
    /\ \E h \in HeuristicArrays :
          /\ BotResult(h).status = "passed" \/ MayNotPass
          /\ results' = RecordResult(results, di, BotResult(h))
          /\ botPassing' = <<CountTrue(h)>>
    /\ dpc' = "delay"
    /\ inFlight' = inFlight \ {di}
    /\ UNCHANGED <<liveTracks, acquired>>
    /\ UNCHANGED <<isRunning, isComplete, di, startLog, thrown>>
    /\ DiagOnly

\* the awaited check rejects: the catch block records a failed result and the
\* loop goes on without the delay
CheckThrows ==
    /\ dpc = "awaitCheck"
    /\ di \in MayThrow
    /\ MayNotPass
    /\ \E e \in Throwables :
          /\ results' = RecordResult(results, di, CaughtResult(di, e))
          /\ thrown' = Append(thrown, [check |-> di, error |-> e])
    /\ LoopFrom(NextIndex(di), inFlight \ {di}, startLog, isRunning)
    /\ UNCHANGED <<botPassing, liveTracks, acquired>>
    /\ DiagOnly

\* the 300 ms delay after a recorded result elapses
DelayElapses ==
    /\ dpc = "delay"
    /\ LoopFrom(NextIndex(di), inFlight, startLog, isRunning)
    /\ UNCHANGED <<results, thrown, botPassing, liveTracks, acquired>>
    /\ DiagOnly

NextDiag ==
    \/ RunDiagnostics
    \/ GetUserMediaResolves
    \/ CheckResolves
    \/ BotCheckResolves
    \/ CheckThrows
    \/ DelayElapses

(***************************************************************************)
(* Strings, sanitizers (validation.ts:18-57)                               *)
(*                                                                         *)
(* A string is a sequence of one-character strings.                        *)
(***************************************************************************)
\* the whitespace that occurs in the inputs tried (String.prototype.trim and
\* \s know more)
Whitespace == {" ", "\n"}

RECURSIVE TrimStart(_)
TrimStart(s) ==
    IF s # <<>> /\ Head(s) \in Whitespace THEN TrimStart(Tail(s)) ELSE s

RECURSIVE TrimEnd(_)
TrimEnd(s) ==
    IF s # <<>> /\ s[Len(s)] \in Whitespace
    THEN TrimEnd(SubSeq(s, 1, Len(s) - 1))
    ELSE s

\* String.prototype.trim
Trim(s) == TrimEnd(TrimStart(s))

UpperLetters == <<"A", "B", "C", "D", "E", "F", "G", "H", "I", "J", "K", "L", "M",
                  "N", "O", "P", "Q", "R", "S", "T", "U", "V", "W", "X", "Y", "Z">>
LowerLetters == <<"a", "b", "c", "d", "e", "f", "g", "h", "i", "j", "k", "l", "m",
                  "n", "o", "p", "q", "r", "s", "t", "u", "v", "w", "x", "y", "z">>
Digits == {"0", "1", "2", "3", "4", "5", "6", "7", "8", "9"}
Range(f) == {f[i] : i \in DOMAIN f}
UpperSet == Range(UpperLetters)
LowerSet == Range(LowerLetters)
Letters == UpperSet \cup LowerSet

LowerChar(c) ==
    IF c \in UpperSet
    THEN LowerLetters[CHOOSE i \in DOMAIN UpperLetters : UpperLetters[i] = c]
    ELSE c
UpperChar(c) ==
    IF c \in LowerSet
    THEN UpperLetters[CHOOSE i \in DOMAIN LowerLetters : LowerLetters[i] = c]
    ELSE c
\* String.prototype.toLowerCase, toUpperCase
ToLowerCase(s) == [i \in DOMAIN s |-> LowerChar(s[i])]
ToUpperCase(s) == [i \in DOMAIN s |-> UpperChar(s[i])]

\* String.prototype.startsWith
StartsWith(s, prefix) ==
    Len(s) >= Len(prefix) /\ SubSeq(s, 1, Len(prefix)) = prefix

\* s.replace(/[...]/g, ''): every character of the class removed
RemoveChars(s, class) == SelectSeq(s, LAMBDA c : c \notin class)
\* s.replace(/[^...]/g, ''): every character outside the class removed
KeepChars(s, class) == SelectSeq(s, LAMBDA c : c \in class)

\* s.replace(/word/gi, ''): one scan from the left, every match removed, the
\* scan going on behind the match
RECURSIVE RemoveWord(_, _)
RemoveWord(s, word) ==
    IF Len(s) < Len(word) THEN s
    ELSE IF ToLowerCase(SubSeq(s, 1, Len(word))) = word
         THEN RemoveWord(SubSeq(s, Len(word) + 1, Len(s)), word)
         ELSE <<Head(s)>> \o RemoveWord(Tail(s), word)

\* String.prototype.split(','): the parts between the commas, always one at
\* least
RECURSIVE SplitFrom(_, _, _)
SplitFrom(s, sep, part) ==
    IF s = <<>> THEN <<part>>
    ELSE IF Head(s) = sep THEN <<part>> \o SplitFrom(Tail(s), sep, <<>>)
         ELSE SplitFrom(Tail(s), sep, Append(part, Head(s)))
Split(s, sep) == SplitFrom(s, sep, <<>>)

JavascriptWord == <<"j", "a", "v", "a", "s", "c", "r", "i", "p", "t", ":">>
DataWord == <<"d", "a", "t", "a", ":">>

\* sanitize.text
SanitizeText(input) ==
    Trim(RemoveWord(RemoveWord(RemoveChars(input, {"<", ">"}), JavascriptWord),
                    DataWord))

\* sanitize.email
SanitizeEmail(input) ==
    KeepChars(Trim(ToLowerCase(input)), Letters \cup Digits \cup {"@", ".", "_", "-"})

PhoneChars == Digits \cup Whitespace \cup {"+", "-", "(", ")", "."}
\* sanitize.phone
SanitizePhone(input) == Trim(KeepChars(input, PhoneChars))

\* sanitize.wifi
SanitizeWifi(input) == Trim(RemoveChars(input, {";", "\""}))

\* sanitize.contact
SanitizeContact(input) == Trim(RemoveChars(input, {";", "\""}))

(***************************************************************************)
(* The URL class of the platform, as far as the inputs tried need it       *)
(***************************************************************************)
SchemeChars == Letters \cup Digits \cup {"+", "-", "."}
\* the position of the ':' that ends a scheme, 0 when the string has none
SchemeEnd(s) ==
    LET colons == {i \in DOMAIN s : s[i] = ":"} IN
    IF colons = {} THEN 0
    ELSE LET c == CHOOSE i \in colons : \A j \in colons : i <= j IN
         IF c > 1 /\ s[1] \in Letters /\ \A j \in 1..(c - 1) : s[j] \in SchemeChars
         THEN c ELSE 0

RECURSIVE DropSlashes(_)
DropSlashes(s) == IF s # <<>> /\ Head(s) \in {"/", "\\"} THEN DropSlashes(Tail(s)) ELSE s

\* the characters before the first one of a class
RECURSIVE Before(_, _)
Before(s, class) ==
    IF s = <<>> \/ Head(s) \in class THEN <<>>
    ELSE <<Head(s)>> \o Before(Tail(s), class)

\* the characters behind the last one of a class (all, when there is none)
RECURSIVE AfterLast(_, _)
AfterLast(s, class) ==
    IF \E i \in DOMAIN s : s[i] \in class THEN AfterLast(Tail(s), class) ELSE s

HttpWord == <<"h", "t", "t", "p">>
HttpsWord == <<"h", "t", "t", "p", "s">>
HttpsPrefix == <<"h", "t", "t", "p", "s", ":", "/", "/">>
ForbiddenHostChars == Whitespace \cup {"#", "/", "<", ">", "?", "@", "[", "\\", "]",
                                       "^", "|", "%", ":"}

\* new URL(s): whether it parses, and url.toString() when it does
UrlParse(s) ==
    LET t == Trim(s)
        c == SchemeEnd(t)
        scheme == ToLowerCase(SubSeq(t, 1, c - 1))
        rest == SubSeq(t, c + 1, Len(t))
        authority == AfterLast(Before(DropSlashes(rest), {"/", "?", "#", "\\"}), {"@"})
        host == Before(authority, {":"})
        port == SubSeq(authority, Len(host) + 2, Len(authority))
        path == SubSeq(DropSlashes(rest),
                       Len(Before(DropSlashes(rest), {"/", "?", "#", "\\"})) + 1,
                       Len(DropSlashes(rest)))
    IN  IF c = 0 THEN [ok |-> FALSE, href |-> <<>>]
        ELSE IF scheme \in {HttpWord, HttpsWord}
             THEN IF \/ host = <<>>
                     \/ \E i \in DOMAIN host : host[i] \in ForbiddenHostChars
                     \/ \E i \in DOMAIN port : port[i] \notin Digits
                  THEN [ok |-> FALSE, href |-> <<>>]
                  ELSE [ok |-> TRUE,
                        href |-> scheme \o <<":", "/", "/">> \o ToLowerCase(authority)
                                   \o (IF path = <<>> \/ Head(path) # "/"
                                       THEN <<"/">> ELSE <<>>) \o path]
             ELSE [ok |-> TRUE, href |-> scheme \o <<":">> \o rest]

\* sanitize.url
SanitizeUrl(input) ==
    LET url == UrlParse(IF StartsWith(input, HttpWord) THEN input
                        ELSE HttpsPrefix \o input)
    IN  IF url.ok THEN url.href
        ELSE KeepChars(input, Letters \cup Digits \cup {":", "/", "?", ".", "_", "-"})

(***************************************************************************)
(* Validators (validation.ts:60-186)                                       *)
(*                                                                         *)
(* A ValidationResult has its optional fields as sequences of length 0     *)
(* (absent) or 1 (present).                                                *)
(***************************************************************************)
\* { isValid: false, error }, with the value given as well
FailWithValue(message) ==
    [isValid |-> FALSE, error |-> <<message>>, sanitizedValue |-> <<<<>>>>]

\* { isValid: false, error }
Fail(message) == [isValid |-> FALSE, error |-> <<message>>, sanitizedValue |-> <<>>]

\* { isValid: true, sanitizedValue }
Ok(value) == [isValid |-> TRUE, error |-> <<>>, sanitizedValue |-> <<value>>]

\* ValidationOptions: 0, FALSE and "none" stand for an option not supplied
\* (the code tests each option for truthiness)
NoOptions == [required |-> FALSE, minLength |-> 0, maxLength |-> 0,
              pattern |-> "none", customValidator |-> "none"]

\* /^[^\s@]+@[^\s@]+\.[^\s@]+$/.test(s)
EmailRegexTest(s) ==
    LET plain(i, j) == i <= j /\ \A k \in i..j : s[k] \notin Whitespace \cup {"@"}
    IN  \E at \in DOMAIN s, dot \in DOMAIN s :
            /\ s[at] = "@"
            /\ s[dot] = "."
            /\ at < dot
            /\ plain(1, at - 1)
            /\ plain(at + 1, dot - 1)
            /\ plain(dot + 1, Len(s))

\* the {7,} of the phone pattern
PhoneMinChars == 7
\* /^[\+]?[\d\s\-\(\)\.]{7,}$/.test(s)
PhoneRegexTest(s) ==
    LET body == IF s # <<>> /\ Head(s) = "+" THEN Tail(s) ELSE s IN
    /\ Len(body) >= PhoneMinChars
    /\ \A i \in DOMAIN body : body[i] \in PhoneChars \ {"+"}

\* the patterns a caller passes as options.pattern
PatternTest(pattern, s) ==
    CASE pattern = "lettersOnly" -> s # <<>> /\ \A i \in DOMAIN s : s[i] \in Letters
      [] OTHER -> TRUE

\* validate.text, its checks before the customValidator, maxLength tested
\* before minLength
GenericChecksMaxFirst(sanitized, options) ==
    IF options.required /\ sanitized = <<>>
    THEN <<"This field is required">>
    ELSE IF options.maxLength # 0 /\ Len(sanitized) > options.maxLength
    THEN <<"Maximum length is " \o ToString(options.maxLength) \o " characters">>
    ELSE IF options.minLength # 0 /\ Len(sanitized) < options.minLength
    THEN <<"Minimum length is " \o ToString(options.minLength) \o " characters">>
    ELSE IF options.pattern # "none" /\ ~PatternTest(options.pattern, sanitized)
    THEN <<"Invalid format">>
    ELSE <<>>

\* validate.text, its checks before the customValidator: the error of the
\* first that fails, none when all pass
GenericChecks(sanitized, options) ==
    IF options.required /\ sanitized = <<>>
    THEN <<"This field is required">>
    ELSE IF options.minLength # 0 /\ Len(sanitized) < options.minLength
    THEN <<"Minimum length is " \o ToString(options.minLength) \o " characters">>
    ELSE IF options.maxLength # 0 /\ Len(sanitized) > options.maxLength
    THEN <<"Maximum length is " \o ToString(options.maxLength) \o " characters">>
    ELSE IF options.pattern # "none" /\ ~PatternTest(options.pattern, sanitized)
    THEN <<"Invalid format">>
    ELSE <<>>

\* validate.url
ValidateUrl(input) ==
    LET sanitized == SanitizeUrl(input) IN
    IF UrlParse(sanitized).ok THEN Ok(sanitized) ELSE Fail("Invalid URL format")

\* validate.email
ValidateEmail(input) ==
    LET sanitized == SanitizeEmail(input) IN
    IF ~EmailRegexTest(sanitized) THEN Fail("Invalid email format") ELSE Ok(sanitized)

\* validate.phone, a failure carrying a value
ValidatePhoneFailWithValue(input) ==
    LET sanitized == SanitizePhone(input) IN
    IF ~PhoneRegexTest(sanitized) THEN FailWithValue("Invalid phone number format")
    ELSE Ok(sanitized)

\* validate.phone
ValidatePhone(input) ==
    LET sanitized == SanitizePhone(input) IN
    IF ~PhoneRegexTest(sanitized) THEN Fail("Invalid phone number format")
    ELSE Ok(sanitized)

\* the number of parts validate.wifi and validate.contact ask for
MinParts == 3

ValidSecurity == {<<"W", "P", "A">>, <<"W", "P", "A", "2">>, <<"W", "P", "A", "3">>, <<"W", "E", "P">>, <<"N", "O", "N", "E">>}

\* validSecurity.includes(security), the token taken as it is written
SecurityAcceptedAsWritten(security) == security \in ValidSecurity

\* validSecurity.includes(security.toUpperCase())
SecurityAccepted(security) == ToUpperCase(security) \in ValidSecurity

\* validate.wifi
ValidateWifi(input) ==
    LET sanitized == SanitizeWifi(input)
        parts == Split(sanitized, ",")
    IN  IF Len(parts) < MinParts
        THEN Fail("Please provide: NetworkName,Password,SecurityType")
        ELSE LET ssid == Trim(parts[1])
                 password == Trim(parts[2])
                 security == Trim(parts[3])
             IN  IF ssid = <<>> THEN Fail("Network name is required")
                 ELSE IF password = <<>> THEN Fail("Password is required")
                 ELSE IF ~SecurityAccepted(security)
                 THEN Fail("Security type must be: WPA, WPA2, WPA3, WEP, or NONE")
                 ELSE Ok(sanitized)

\* validate.contact
ValidateContact(input) ==
    LET sanitized == SanitizeContact(input)
        parts == Split(sanitized, ",")
    IN  IF Len(parts) < MinParts
        THEN Fail("Please provide: Name,Phone,Email")
        ELSE LET name == Trim(parts[1])
                 phone == Trim(parts[2])
                 email == Trim(parts[3])
                 phoneValidation == ValidatePhone(phone)
                 emailValidation == ValidateEmail(email)
             IN  IF name = <<>> THEN Fail("Name is required")
                 ELSE IF phone # <<>> /\ ~phoneValidation.isValid
                 THEN Fail("Invalid phone: " \o phoneValidation.error[1])
                 ELSE IF email # <<>> /\ ~emailValidation.isValid
                 THEN Fail("Invalid email: " \o emailValidation.error[1])
                 ELSE Ok(sanitized)

\* the maxLength of debouncedValidate's options
MaxContentLength == 2000

\* the customValidator of debouncedValidate for a selected template, and the
\* validators a caller of validate.text supplies
CustomValidator(name, val) ==
    CASE name = "url" -> ValidateUrl(val)
      [] name = "email" -> ValidateEmail(val)
      [] name = "phone" -> ValidatePhone(val)
      [] name = "wifi" -> ValidateWifi(val)
      [] name = "contact" -> ValidateContact(val)
      [] name = "rejectAll" -> Fail("rejected by the caller")
      [] name = "acceptBare" -> [isValid |-> TRUE, error |-> <<>>, sanitizedValue |-> <<>>]
      [] OTHER ->
            LET sanitized == SanitizeText(val)
                failed == GenericChecks(sanitized,
                                        [NoOptions EXCEPT !.maxLength = MaxContentLength])
            IN  IF failed # <<>> THEN Fail(failed[1]) ELSE Ok(sanitized)

\* validate.text: the arguments its customValidator is invoked with (none
\* when it is not invoked)
CustomValidatorCalls(input, options) ==
    IF GenericChecks(SanitizeText(input), options) = <<>>
       /\ options.customValidator # "none"
    THEN <<SanitizeText(input)>>
    ELSE <<>>

\* validate.text
ValidateText(input, options) ==
    LET sanitized == SanitizeText(input)
        failed == GenericChecks(sanitized, options)
        calls == CustomValidatorCalls(input, options)
    IN  IF failed # <<>> THEN Fail(failed[1])
        ELSE IF calls # <<>> THEN CustomValidator(options.customValidator, calls[1])
        ELSE Ok(sanitized)

(***************************************************************************)
(* Template formatters (DiagnosticModule.tsx:410-465)                      *)
(***************************************************************************)
TemplateIds == {"text", "url", "wifi", "contact", "email", "phone"}

\* the wifi format with ssid and security swapped
FormatWifiSwapped(value) ==
    LET parts == Split(value, ",") IN
    IF Len(parts) >= MinParts
    THEN <<"W", "I", "F", "I", ":", "T", ":">> \o parts[1] \o <<";", "S", ":">> \o parts[3] \o <<";", "P", ":">> \o parts[2] \o <<";", ";">>
    ELSE value

\* qrTemplates[2].format
FormatWifi(value) ==
    LET parts == Split(value, ",") IN
    IF Len(parts) >= MinParts
    THEN <<"W", "I", "F", "I", ":", "T", ":">> \o parts[3] \o <<";", "S", ":">> \o parts[1] \o <<";", "P", ":">> \o parts[2] \o <<";", ";">>
    ELSE value

\* qrTemplates[3].format
FormatContact(value) ==
    LET parts == Split(value, ",") IN
    IF Len(parts) >= MinParts
    THEN <<"B", "E", "G", "I", "N", ":", "V", "C", "A", "R", "D", "\n", "V", "E", "R", "S", "I", "O", "N", ":", "3", ".", "0", "\n", "F", "N", ":">> \o parts[1] \o <<"\n", "T", "E", "L", ":">> \o parts[2] \o <<"\n", "E", "M", "A", "I", "L", ":">> \o parts[3]
             \o <<"\n", "E", "N", "D", ":", "V", "C", "A", "R", "D">>
    ELSE value

\* selectedTemplate.format(value)
Format(templateId, value) ==
    CASE templateId = "url" ->
            IF StartsWith(value, HttpWord) THEN value ELSE HttpsPrefix \o value
      [] templateId = "wifi" -> FormatWifi(value)
      [] templateId = "contact" -> FormatContact(value)
      [] templateId = "email" -> <<"m", "a", "i", "l", "t", "o", ":">> \o value
      [] templateId = "phone" -> <<"t", "e", "l", ":">> \o value
      [] OTHER -> value

(***************************************************************************)
(* One call of a sanitizer, a validator or a formatter on an input         *)
(***************************************************************************)
\* the pieces the sanitizers' inputs are put together from
Tokens == {<<"d", "a">>,
           <<"t", "a", ":">>,
           <<"d", "a", "t", "a", ":">>,
           <<"<">>,
           <<"j", "a", "v">>,
           <<"a", "s", "c", "r", "i", "p", "t", ":">>}

\* the strings of at most n pieces
RECURSIVE Concats(_, _)
Concats(pieces, n) ==
    IF n = 0 THEN {<<>>}
    ELSE LET shorter == Concats(pieces, n - 1) IN
         shorter \cup {t \o u : t \in pieces, u \in shorter}

\* the parts of the wifi and contact inputs
Parts == {<<>>,
          <<"a">>,
          <<" ", "w", "P", "a", "2">>,
          <<"+", "1", "2", "3", "4", "5", "6", "7">>,
          <<"a", "@", "b", ".", "c">>}

\* the strings of exactly n comma-separated parts
RECURSIVE Joined(_, _)
Joined(parts, n) ==
    IF n = 1 THEN parts
    ELSE {p \o <<",">> \o r : p \in parts, r \in Joined(parts, n - 1)}

\* more inputs: URLs, upper case, blanks, and wifi inputs with a fourth part or
\* with characters the sanitizer removes
MoreInputs == {<<"h", "t", "t", "p", ":", "/", "/", "A", ".", "b">>,
               <<"a", ".", "b">>,
               <<"h", "t", "t", "p", ":", "/", "/">>,
               <<"m", "a", "i", "l", "t", "o", ":", "a", "@", "b", ".", "c">>,
               <<"a", ",", "b", ",", "w", "e", "p", ",", "x">>,
               <<"\"", "a", "\"", ",", "b", ",", "n", "o", "n", "e">>,
               <<";", ",", "a", ",", "w", "p", "a">>,
               <<" ", "D", "A", "T", "A", ":", " ", "a", " ">>,
               <<"d", "a", "D", "A", "T", "A", ":", "t", "a", ":">>,
               <<"<", "a", ">">>}

Inputs ==
    Concats(Tokens, MaxTokens)
        \cup UNION {Joined(Parts, n) : n \in 1..MaxParts}
        \cup MoreInputs

\* the generic options tried on validate.text: none, and combinations in which
\* one, two or three checks can fail
GenericOptionsTried ==
    {NoOptions,
     [NoOptions EXCEPT !.required = TRUE],
     [NoOptions EXCEPT !.minLength = 4, !.maxLength = 2],
     [NoOptions EXCEPT !.maxLength = 2, !.pattern = "lettersOnly"],
     [NoOptions EXCEPT !.required = TRUE, !.minLength = 4, !.pattern = "lettersOnly"]}
\* each with no customValidator and with the validators a caller supplies
OptionsTried ==
    {[o EXCEPT !.customValidator = c] :
        o \in GenericOptionsTried, c \in {"none", "rejectAll", "acceptBare"}}

\* a result slot nothing has been returned into
NoValidation == [isValid |-> FALSE, error |-> <<>>, sanitizedValue |-> <<>>]
NoRet == [str |-> <<>>, result |-> NoValidation, calls |-> <<>>]
\* a call that returned a string, a call that returned a ValidationResult
RetString(str) == [str |-> str, result |-> NoValidation, calls |-> <<>>]
RetResult(result, calls) == [str |-> <<>>, result |-> result, calls |-> calls]

FnIdleInit ==
    /\ arg = <<>>
    /\ applied = "none"
    /\ opts = NoOptions
    /\ ret = NoRet

FnOnly == UNCHANGED <<retryVars, diagVars, genVars, storeVars, pageVars, scanVars, utilVars>>

\* a call of one of the sanitizers
CallSanitize ==
    /\ applied = "none"
    /\ \E f \in {"text", "url", "email", "phone", "wifi", "contact"} :
          /\ applied' = "sanitize." \o f
          /\ ret' = RetString(CASE f = "text" -> SanitizeText(arg)
                                [] f = "url" -> SanitizeUrl(arg)
                                [] f = "email" -> SanitizeEmail(arg)
                                [] f = "phone" -> SanitizePhone(arg)
                                [] f = "wifi" -> SanitizeWifi(arg)
                                [] f = "contact" -> SanitizeContact(arg))
    /\ UNCHANGED <<arg, opts>>
    /\ FnOnly

\* a call of validate.text with some options
CallValidateText ==
    /\ applied = "none"
    /\ \E o \in OptionsTried :
          /\ opts' = o
          /\ ret' = RetResult(ValidateText(arg, o), CustomValidatorCalls(arg, o))
    /\ applied' = "validate.text"
    /\ UNCHANGED arg
    /\ FnOnly

\* a call of one of the class validators
CallValidate ==
    /\ applied = "none"
    /\ \E f \in {"url", "email", "phone", "wifi", "contact"} :
          /\ applied' = "validate." \o f
          /\ ret' = RetResult(CASE f = "url" -> ValidateUrl(arg)
                                [] f = "email" -> ValidateEmail(arg)
                                [] f = "phone" -> ValidatePhone(arg)
                                [] f = "wifi" -> ValidateWifi(arg)
                                [] f = "contact" -> ValidateContact(arg),
                              <<>>)
    /\ UNCHANGED <<arg, opts>>
    /\ FnOnly

\* a call of a template's format
CallFormat ==
    /\ applied = "none"
    /\ \E t \in TemplateIds :
          /\ applied' = "format." \o t
          /\ ret' = RetString(Format(t, arg))
    /\ UNCHANGED <<arg, opts>>
    /\ FnOnly

NextFn ==
    \/ CallSanitize
    \/ CallValidateText
    \/ CallValidate
    \/ CallFormat

(***************************************************************************)
(* JSON.stringify and JSON.parse, as safeLocalStorage uses them            *)
(* (src/src/utils/validation.ts:274, 283)                                  *)
(***************************************************************************)
\* a JavaScript value: one record shape for all, the fields a type does not
\* use left empty.  An array has its elements in a, an object its members
\* [k, v] in a, in insertion order.
JNull == [t |-> "null", b |-> FALSE, n |-> 0, s |-> <<>>, a |-> <<>>]
JBool(b) == [JNull EXCEPT !.t = "bool", !.b = b]
JNum(n) == [JNull EXCEPT !.t = "num", !.n = n]
JStr(s) == [JNull EXCEPT !.t = "str", !.s = s]
JArr(a) == [JNull EXCEPT !.t = "arr", !.a = a]
JObj(members) == [JNull EXCEPT !.t = "obj", !.a = members]

DigitSeq == <<"0", "1", "2", "3", "4", "5", "6", "7", "8", "9">>
DigitValue(c) == (CHOOSE d \in 1..Len(DigitSeq) : DigitSeq[d] = c) - 1

\* the decimal digits of a natural number
RECURSIVE NatToChars(_)
NatToChars(n) ==
    IF n < Len(DigitSeq) THEN <<DigitSeq[n + 1]>>
    ELSE NatToChars(n \div Len(DigitSeq)) \o <<DigitSeq[(n % Len(DigitSeq)) + 1]>>

\* JSON.stringify of an integer
NumToChars(n) == IF n < 0 THEN <<"-">> \o NatToChars(0 - n) ELSE NatToChars(n)

\* JSON.stringify of a string: quoted, with '"', '\' and the newline escaped
RECURSIVE QuoteFrom(_, _)
QuoteFrom(s, i) ==
    IF i > Len(s) THEN <<"\"">>
    ELSE (CASE s[i] = "\"" -> <<"\\", "\"">>
            [] s[i] = "\\" -> <<"\\", "\\">>
            [] s[i] = "\n" -> <<"\\", "n">>
            [] OTHER -> <<s[i]>>) \o QuoteFrom(s, i + 1)
Quote(s) == <<"\"">> \o QuoteFrom(s, 1)

\* JSON.stringify(value)
RECURSIVE Stringify(_)
Stringify(v) ==
    LET RECURSIVE Items(_)
        Items(i) ==
            IF i > Len(v.a) THEN <<>>
            ELSE (IF i > 1 THEN <<",">> ELSE <<>>)
                 \o (IF v.t = "obj"
                       THEN Quote(v.a[i].k) \o <<":">> \o Stringify(v.a[i].v)
                       ELSE Stringify(v.a[i]))
                 \o Items(i + 1)
    IN CASE v.t = "null" -> <<"n", "u", "l", "l">>
         [] v.t = "bool" -> IF v.b THEN <<"t", "r", "u", "e">>
                            ELSE <<"f", "a", "l", "s", "e">>
         [] v.t = "num" -> NumToChars(v.n)
         [] v.t = "str" -> Quote(v.s)
         [] v.t = "arr" -> <<"[">> \o Items(1) \o <<"]">>
         [] v.t = "obj" -> <<"{">> \o Items(1) \o <<"}">>

\* the character at a position, "" past the end
At(s, i) == IF i >= 1 /\ i <= Len(s) THEN s[i] ELSE ""
\* whether word occurs in s at position i
Matches(s, i, word) == \A j \in 1..Len(word) : At(s, i + j - 1) = word[j]
\* the first position at or after i that holds no JSON whitespace
RECURSIVE SkipWs(_, _)
SkipWs(s, i) == IF At(s, i) \in Whitespace THEN SkipWs(s, i + 1) ELSE i

\* a parse that failed (SyntaxError), a parse that produced v and stopped
\* before position i
ParseError == [ok |-> FALSE, v |-> JNull, i |-> 0]
Parsed(v, i) == [ok |-> TRUE, v |-> v, i |-> i]

\* the characters of a JSON string from position i (after the opening quote)
\* to its closing quote; the value of a parse of a string is carried in v.s
RECURSIVE ParseChars(_, _, _)
ParseChars(s, i, acc) ==
    LET c == At(s, i) IN
    CASE c = "" -> ParseError
      [] c = "\"" -> Parsed(JStr(acc), i + 1)
      [] c = "\n" -> ParseError
      [] c = "\\" ->
            (LET e == At(s, i + 1) IN
             CASE e \in {"\"", "\\", "/"} -> ParseChars(s, i + 2, Append(acc, e))
               [] e = "n" -> ParseChars(s, i + 2, Append(acc, "\n"))
               [] OTHER -> ParseError)
      [] OTHER -> ParseChars(s, i + 1, Append(acc, c))

\* the digits of a JSON integer from position i
RECURSIVE ParseDigits(_, _, _)
ParseDigits(s, i, acc) ==
    IF At(s, i) \in Digits
    THEN ParseDigits(s, i + 1, acc * Len(DigitSeq) + DigitValue(At(s, i)))
    ELSE Parsed(JNum(acc), i)

\* a JSON number at position i: an optional '-', then 0 or a digit string
\* without a leading 0 (fractions and exponents are not among the texts stored)
ParseNumber(s, i) ==
    LET neg == At(s, i) = "-"
        j == IF neg THEN i + 1 ELSE i
        r == IF At(s, j) = "0" THEN Parsed(JNum(0), j + 1)
             ELSE IF At(s, j) \in Digits THEN ParseDigits(s, j, 0)
             ELSE ParseError
    IN IF r.ok /\ neg THEN Parsed(JNum(0 - r.v.n), r.i) ELSE r

RECURSIVE ParseValue(_, _)
RECURSIVE ParseElements(_, _, _)
RECURSIVE ParseMembers(_, _, _)

\* the elements of a JSON array from position i, those before it in acc
ParseElements(s, i, acc) ==
    LET j == SkipWs(s, i) IN
    IF acc = <<>> /\ At(s, j) = "]" THEN Parsed(JArr(acc), j + 1)
    ELSE LET r == ParseValue(s, j) IN
         IF ~r.ok THEN ParseError
         ELSE LET k == SkipWs(s, r.i) IN
              CASE At(s, k) = "," -> ParseElements(s, k + 1, Append(acc, r.v))
                [] At(s, k) = "]" -> Parsed(JArr(Append(acc, r.v)), k + 1)
                [] OTHER -> ParseError

\* the members of a JSON object from position i, those before it in acc
ParseMembers(s, i, acc) ==
    LET j == SkipWs(s, i) IN
    IF acc = <<>> /\ At(s, j) = "}" THEN Parsed(JObj(acc), j + 1)
    ELSE IF At(s, j) # "\"" THEN ParseError
    ELSE LET key == ParseChars(s, j + 1, <<>>) IN
         IF ~key.ok THEN ParseError
         ELSE LET c == SkipWs(s, key.i) IN
              IF At(s, c) # ":" THEN ParseError
              ELSE LET r == ParseValue(s, c + 1) IN
                   IF ~r.ok THEN ParseError
                   ELSE LET k == SkipWs(s, r.i)
                            member == [k |-> key.v.s, v |-> r.v]
                        IN CASE At(s, k) = "," ->
                                    ParseMembers(s, k + 1, Append(acc, member))
                             [] At(s, k) = "}" ->
                                    Parsed(JObj(Append(acc, member)), k + 1)
                             [] OTHER -> ParseError

\* a JSON value at position i, whitespace before it skipped
ParseValue(s, i) ==
    LET j == SkipWs(s, i)
        c == At(s, j)
    IN CASE c = "\"" -> ParseChars(s, j + 1, <<>>)
         [] c = "[" -> ParseElements(s, j + 1, <<>>)
         [] c = "{" -> ParseMembers(s, j + 1, <<>>)
         [] c = "-" \/ c \in Digits -> ParseNumber(s, j)
         [] Matches(s, j, <<"n", "u", "l", "l">>) -> Parsed(JNull, j + 4)
         [] Matches(s, j, <<"t", "r", "u", "e">>) -> Parsed(JBool(TRUE), j + 4)
         [] Matches(s, j, <<"f", "a", "l", "s", "e">>) -> Parsed(JBool(FALSE), j + 5)
         [] OTHER -> ParseError

\* JSON.parse(text): the value, or a SyntaxError (ok = FALSE) when the text
\* is not one JSON value
ParseJson(json) ==
    LET r == ParseValue(json, 1) IN
    IF r.ok /\ SkipWs(json, r.i) > Len(json) THEN r ELSE ParseError

(***************************************************************************)
(* safeLocalStorage (src/src/utils/validation.ts:270-300)                  *)
(***************************************************************************)
\* the keys used: the history list and a colour preference
Keys == {"qrHistory", "qrForegroundColor"}

\* what localStorage.getItem finds under a key: nothing (null), or a text
NoStoredItem == [present |-> FALSE, text |-> <<>>]
StoredItem(stored) == [present |-> TRUE, text |-> stored]

\* a history entry as saveToHistory writes it, shortened to two properties
EntryValue ==
    JObj(<<[k |-> <<"i", "d">>, v |-> JStr(<<"l", "x", "1">>)],
           [k |-> <<"t", "i", "m", "e", "s", "t", "a", "m", "p">>, v |-> JNum(170)]>>)
\* the default colour '#000000'
BlackValue == JStr(<<"#", "0", "0", "0", "0", "0", "0">>)

\* the JSON values written: the scalars that are falsy in JavaScript, a
\* negative number, strings with characters JSON escapes, arrays (empty,
\* mixed, nested, of entries) and the empty object
ValuesTried ==
    {JNull, JBool(FALSE), JNum(0), JNum(0 - 12), JStr(<<>>), BlackValue,
     JStr(<<"a", "\"", ",", "\\", "\n">>),
     JArr(<<>>), JArr(<<JNum(1), JStr(<<"a", ",", "b">>), JArr(<<JBool(TRUE)>>)>>),
     JArr(<<EntryValue, EntryValue>>), JObj(<<>>)}
\* the defaults passed to get: null (the parameter's default), [], '#000000'
DefaultsTried == {JNull, JArr(<<>>), BlackValue}

\* texts JSON.parse rejects: 'undefined', '{', '[1,]', '01', '"a'
CorruptTexts ==
    {<<"u", "n", "d", "e", "f", "i", "n", "e", "d">>, <<"{">>,
     <<"[", "1", ",", "]">>, <<"0", "1">>, <<"\"", "a">>}
\* texts of an earlier session that JSON.parse accepts: ' [ ]\n', '"#fff"'
EarlierTexts ==
    {<<" ", "[", " ", "]", "\n">>, <<"\"", "#", "f", "f", "f", "\"">>}
\* what an earlier session or other code of the origin may have left
ItemsFound ==
    {NoStoredItem, StoredItem(<<>>)}
        \cup {StoredItem(x) : x \in CorruptTexts \cup EarlierTexts}

\* how the body of a try block ends: by throwing, or by returning a value
Thrown == [threw |-> TRUE, value |-> JNull]
Returned(value) == [threw |-> FALSE, value |-> value]

\* try { body } with no catch clause: an exception leaves the function
Uncaught(outcome, fallback) == outcome

\* try { body } catch (error) { console.warn(...); return fallback; }
Caught(outcome, fallback) ==
    IF outcome.threw THEN Returned(fallback) ELSE outcome

\* the try block of get: getItem, then JSON.parse of a truthy item
GetBody(store, key, defaultValue, readThrows) ==
    IF readThrows THEN Thrown
    ELSE LET item == store[key] IN
         IF ~item.present \/ item.text = <<>> THEN Returned(defaultValue)
         ELSE LET parsed == ParseJson(item.text) IN
              IF parsed.ok THEN Returned(parsed.v) ELSE Thrown

\* the try block of set and of remove: the storage call, then return true
WriteBody(writeThrows) ==
    IF writeThrows THEN Thrown ELSE Returned(JBool(TRUE))

\* the record of a call
StoreCall(op, key, value, item, threw, outcome) ==
    [op |-> op, key |-> key, value |-> value, item |-> item, threw |-> threw,
     outcome |-> outcome]
NoStoreCall == StoreCall("none", "", JNull, NoStoredItem, FALSE, Returned(JNull))

\* no value known to be stored under a key; a value known to be
Unknown == [known |-> FALSE, value |-> JNull]
Known(value) == [known |-> TRUE, value |-> value]

StoreIdleInit ==
    /\ localStorage = [k \in Keys |-> NoStoredItem]
    /\ storeCall = NoStoreCall
    /\ written = [k \in Keys |-> Unknown]

StoreOnly == UNCHANGED <<retryVars, diagVars, genVars, fnVars, pageVars, scanVars, utilVars>>

\* safeLocalStorage.get(key, defaultValue); localStorage.getItem may throw
\* (storage access denied)
SafeGet ==
    /\ \E key \in Keys, defaultValue \in DefaultsTried, readThrows \in BOOLEAN :
          storeCall' = StoreCall("get", key, defaultValue, localStorage[key], readThrows,
                                 Caught(GetBody(localStorage, key, defaultValue, readThrows),
                                        defaultValue))
    /\ UNCHANGED <<localStorage, written>>
    /\ StoreOnly

\* safeLocalStorage.set(key, value); localStorage.setItem may throw (quota
\* exceeded, storage access denied) and then stores nothing
SafeSet ==
    /\ \E key \in Keys, value \in ValuesTried, writeThrows \in BOOLEAN :
          /\ storeCall' = StoreCall("set", key, value, localStorage[key], writeThrows,
                                    Caught(WriteBody(writeThrows), JBool(FALSE)))
          /\ localStorage' = IF writeThrows THEN localStorage
                             ELSE [localStorage EXCEPT ![key] = StoredItem(Stringify(value))]
          /\ written' = IF writeThrows THEN written
                        ELSE [written EXCEPT ![key] = Known(value)]
    /\ StoreOnly

\* safeLocalStorage.remove(key); localStorage.removeItem may throw and then
\* removes nothing
SafeRemove ==
    /\ \E key \in Keys, removeThrows \in BOOLEAN :
          /\ storeCall' = StoreCall("remove", key, JNull, localStorage[key], removeThrows,
                                    Caught(WriteBody(removeThrows), JBool(FALSE)))
          /\ localStorage' = IF removeThrows THEN localStorage
                             ELSE [localStorage EXCEPT ![key] = NoStoredItem]
          /\ written' = IF removeThrows THEN written
                        ELSE [written EXCEPT ![key] = Unknown]
    /\ StoreOnly

NextStore ==
    \/ SafeGet
    \/ SafeSet
    \/ SafeRemove

(***************************************************************************)
(* The generator: generateQR, its retry timer and saveToHistory            *)
(***************************************************************************)
\* strings are sequences of characters
Texts == {<<>>, <<" ">>, <<" ", "a">>}
\* qrTemplates[0], the initial selectedTemplate: format is the identity
TextTemplate == [id |-> "text", name |-> "Text"]
\* the name of the template with an id
TemplateName(id) ==
    CASE id = "url" -> "Website"
      [] id = "wifi" -> "WiFi"
      [] id = "contact" -> "Contact"
      [] id = "email" -> "Email"
      [] id = "phone" -> "Phone"
      [] OTHER -> TextTemplate.name
\* the templates chosen in the behaviours explored
TemplatesTried == {"text", "wifi", "email"}
\* the entries of the history panel clicked in the behaviours explored: the
\* newest
LoadableIndexes == {1}
\* validationError when there is none (null)
NoError == "null"

\* the arguments generateQR passes to withRetry
GenMaxRetries == 3
GenDelay == 500
\* the `retryCount < 2` test of the catch block
GenRetryLimit == 2
\* the end index of qrHistory.slice(0, 9)
HistoryKeep == 9

\* Array.prototype.slice(from, to) of a list (0-based, end exclusive)
Slice(list, from, to) == SubSeq(list, from + 1, Min(to, Len(list)))

\* the errors QRCode.toDataURL may reject with
EncodeErrors == {"e1"}

\* the data URL QRCode.toDataURL resolves with for a content
DataUrl(content) == <<"data:image/png;base64,">> \o content
\* qrCodeUrl before any generation (null)
NoUrl == <<>>

\* what localStorage holds under 'qrHistory'
NoItem == [kind |-> "none", items |-> <<>>]
CorruptItem == [kind |-> "corrupt", items |-> <<>>]
ObjectItem == [kind |-> "object", items |-> <<>>]
ArrayItem(list) == [kind |-> "array", items |-> list]

\* an entry saved by an earlier session
OldEntry(j) == [id |-> 0 - j, content |-> <<"o">>, template |-> "Text",
                qrDataUrl |-> DataUrl(<<"o">>)]
\* the lengths of the stored lists: empty, and around the capacity
StoredLengths == {0} \cup ((HistoryKeep - 1)..MaxStored)
\* an entry an earlier session made with the Email template from 'a@b.c'
MailContent == Format("email", <<"a", "@", "b", ".", "c">>)
MailEntry == [id |-> 0 - 1, content |-> MailContent, template |-> "Email",
              qrDataUrl |-> DataUrl(MailContent)]
StoredItems ==
    {NoItem, CorruptItem, ObjectItem, ArrayItem(<<MailEntry>>)}
        \cup {ArrayItem([j \in 1..n |-> OldEntry(j)]) : n \in StoredLengths}

\* safeLocalStorage.get(key, defaultValue): JSON.parse of the item, the
\* default when there is none or it does not parse
StorageGet(item, defaultValue) ==
    IF item.kind \in {"none", "corrupt"} THEN defaultValue ELSE item

\* the item after safeLocalStorage.set('qrHistory', value) returned saved,
\* the item left as it was
StorageSetNothing(item, value, saved) == item

\* the item after safeLocalStorage.set('qrHistory', value) returned saved
StorageSet(item, value, saved) == IF saved THEN ArrayItem(value) ELSE item

\* no toast, and the toast of saveToHistory when set returned false
NoToast == "none"
SaveFailedToast == "Failed to save to history. Storage may be full."

\* [newEntry, ...qrHistory], nothing dropped
UpdatedNoSlice(newEntry, history) == <<newEntry>> \o history

\* [...qrHistory.slice(0, 9), newEntry]: the new entry put last
UpdatedAtEnd(newEntry, history) == Append(Slice(history, 0, HistoryKeep), newEntry)

\* [newEntry, ...qrHistory.slice(0, 9)]
Updated(newEntry, history) == <<newEntry>> \o Slice(history, 0, HistoryKeep)

\* the newEntry of saveToHistory
NewEntry(id, content, templateName, qrDataUrl) ==
    [id |-> id, content |-> content, template |-> templateName,
     qrDataUrl |-> qrDataUrl]

\* what a generateQR closure has captured from the render that made it
Closure(click) ==
    [click |-> click, text |-> text, retryCount |-> retryCount,
     qrHistory |-> qrHistory, template |-> selectedTemplate,
     validationError |-> validationError]

\* the validation debouncedValidate makes of a value, for the template its
\* closure has captured
TemplateValidation(templateId, value) ==
    ValidateText(value, [NoOptions EXCEPT !.maxLength = MaxContentLength,
                                          !.customValidator = templateId])

\* what the debounced function sets validationError to
DebouncedError(templateId, value) ==
    IF Trim(value) = <<>> THEN NoError
    ELSE LET validation == TemplateValidation(templateId, value) IN
         IF validation.isValid THEN NoError
         ELSE IF validation.error # <<>> THEN validation.error[1]
              ELSE "Invalid input"

\* a call of the debounced validator inst: clearTimeout of its pending timer,
\* setTimeout of a new one
Debounced(pending, inst, templateId, value) ==
    Append(SelectSeq(pending, LAMBDA d : d.inst # inst),
           [inst |-> inst, template |-> templateId, value |-> value])

GenOnly == UNCHANGED <<retryVars, diagVars, fnVars, storeVars, pageVars, scanVars, utilVars>>

RECURSIVE SumTo(_, _)
SumTo(f, n) == IF n = 0 THEN 0 ELSE f[n] + SumTo(f, n - 1)
\* generateQR invocations so far
TotalRuns == SumTo(genRuns, MaxClicks)

GenInitWith(item) ==
    /\ mounted = FALSE
    /\ text = <<>>
    /\ qrCodeUrl = NoUrl
    /\ isGenerating = FALSE
    /\ retryCount = 0
    /\ qrHistory = <<>>
    /\ storage = item
    /\ runs = {}
    /\ timers = {}
    /\ nextId = 1
    /\ clicks = 0
    /\ encodeCalls = [c \in 1..MaxClicks |-> 0]
    /\ genRuns = [c \in 1..MaxClicks |-> 0]
    /\ finalError = {}
    /\ selectedTemplate = TextTemplate.id
    /\ validationError = NoError
    /\ debounce = <<>>
    /\ debInst = 0
    /\ edits = 0
    /\ saveToast = NoToast
    /\ loaded = <<>>

GenIdleInit == GenInitWith(NoItem)

\* the mount effects of QRGenerator: the history is loaded, and the first
\* debounced validation (of the empty text) is scheduled
MountGenerator ==
    /\ ~mounted
    /\ mounted' = TRUE
    /\ LET savedHistory == StorageGet(storage, ArrayItem(<<>>)) IN
       qrHistory' = IF savedHistory.kind = "array" THEN savedHistory.items
                    ELSE qrHistory
    /\ debounce' = Debounced(debounce, debInst, selectedTemplate, text)
    /\ UNCHANGED <<text, qrCodeUrl, isGenerating, retryCount, storage, runs, timers,
                   nextId, clicks, encodeCalls, genRuns, finalError,
                   selectedTemplate, validationError, debInst, edits>>
    /\ UNCHANGED noteVars
    /\ GenOnly

\* the user edits the text area (or clears it with its button): the effect on
\* [text, debouncedValidate] calls the debounced validator
SetText ==
    /\ mounted
    /\ edits + clicks < MaxUserActions
    /\ \E t \in Texts \ {text} :
          /\ text' = t
          /\ debounce' = Debounced(debounce, debInst, selectedTemplate, t)
    /\ edits' = edits + 1
    /\ UNCHANGED <<mounted, qrCodeUrl, isGenerating, retryCount, qrHistory, storage,
                   runs, timers, nextId, clicks, encodeCalls, genRuns, finalError,
                   selectedTemplate, validationError, debInst>>
    /\ loaded' = <<>>
    /\ UNCHANGED saveToast
    /\ GenOnly

\* selectTemplate(template) with another template than the selected one: the
\* text is cleared, useCallback makes a new debounced validator (the timer of
\* the old one stays pending) and the effect calls it
SelectTemplate ==
    /\ mounted
    /\ edits + clicks < MaxUserActions
    /\ \E t \in TemplatesTried \ {selectedTemplate} :
          /\ selectedTemplate' = t
          /\ debounce' = Debounced(debounce, debInst + 1, t, <<>>)
    /\ text' = <<>>
    /\ debInst' = debInst + 1
    /\ edits' = edits + 1
    /\ UNCHANGED <<mounted, qrCodeUrl, isGenerating, retryCount, qrHistory, storage,
                   runs, timers, nextId, clicks, encodeCalls, genRuns, finalError,
                   validationError>>
    /\ loaded' = <<>>
    /\ UNCHANGED saveToast
    /\ GenOnly

\* loadFromHistory(historyItem), by a click on an entry of the history panel:
\* the entry's image is shown and its content put in the input (the effect
\* on text calls the debounced validator); the selected template stays
LoadFromHistory ==
    /\ mounted
    /\ edits + clicks < MaxUserActions
    /\ \E i \in DOMAIN qrHistory :
          /\ i \in LoadableIndexes
          /\ qrCodeUrl' = qrHistory[i].qrDataUrl
          /\ text' = qrHistory[i].content
          /\ loaded' = <<qrHistory[i].content>>
          /\ debounce' = Debounced(debounce, debInst, selectedTemplate, qrHistory[i].content)
    /\ edits' = edits + 1
    /\ UNCHANGED <<mounted, isGenerating, retryCount, qrHistory, storage, runs, timers,
                   nextId, clicks, encodeCalls, genRuns, finalError,
                   selectedTemplate, validationError, debInst, saveToast>>
    /\ GenOnly

\* the oldest pending timer of a debounced validator fires (all wait 300 ms):
\* the value it was called with is validated for the template it captured
DebounceFires ==
    /\ debounce # <<>>
    /\ validationError' = DebouncedError(Head(debounce).template, Head(debounce).value)
    /\ debounce' = Tail(debounce)
    /\ UNCHANGED <<mounted, text, qrCodeUrl, isGenerating, retryCount, qrHistory,
                   storage, runs, timers, nextId, clicks, encodeCalls, genRuns,
                   finalError, selectedTemplate, debInst, edits>>
    /\ UNCHANGED noteVars
    /\ GenOnly

\* the tests generateQR of closure cl returns at
Rejected(cl) == Trim(cl.text) = <<>> \/ cl.validationError # NoError

\* generateQR() of closure cl, from its first line to the first await: it
\* returns at once, or the encode of withRetry's first attempt is in flight
EnterGenerateQR(cl) ==
    /\ genRuns' = [genRuns EXCEPT ![cl.click] = @ + 1]
    /\ IF Rejected(cl)
       THEN UNCHANGED <<isGenerating, retryCount, runs, encodeCalls>>
       ELSE /\ isGenerating' = TRUE
            /\ retryCount' = 0
            /\ runs' = runs \cup {[closure |-> cl,
                                   formattedContent |-> Format(cl.template, Trim(cl.text)),
                                   frame |-> WithRetryEnter(GenMaxRetries, GenDelay)]}
            /\ encodeCalls' = [encodeCalls EXCEPT ![cl.click] = @ + 1]

\* a click on the Generate button, which is disabled while
\* !text.trim() || isGenerating || !!validationError: generateQR of the current
\* render runs
ClickGenerate ==
    /\ mounted
    /\ clicks < MaxClicks
    /\ edits + clicks < MaxUserActions
    /\ TotalRuns < MaxRuns
    /\ Trim(text) # <<>>
    /\ ~isGenerating
    /\ validationError = NoError
    /\ clicks' = clicks + 1
    /\ EnterGenerateQR(Closure(clicks + 1))
    /\ UNCHANGED <<mounted, text, qrCodeUrl, qrHistory, storage, timers, nextId,
                   finalError>>
    /\ UNCHANGED inputVars
    /\ UNCHANGED noteVars
    /\ GenOnly

\* QRCode.toDataURL resolves: withRetry returns the url, and generateQR shows
\* it, saves it to the history (the write to storage may fail) and ends
EncodeResolves ==
    \E run \in runs :
        /\ run.frame.pc = "calling"
        /\ LET url == DataUrl(run.formattedContent)
               frame == WithRetryOnResolve(run.frame, url)
               newEntry == NewEntry(nextId, run.formattedContent,
                                    TemplateName(run.closure.template), frame.settled)
               updated == Updated(newEntry, run.closure.qrHistory)
           IN  /\ qrCodeUrl' = frame.settled
               /\ qrHistory' = updated
               /\ \E saved \in BOOLEAN :
                     /\ storage' = StorageSet(storage, updated, saved)
                     /\ saveToast' = IF saved THEN NoToast ELSE SaveFailedToast
        /\ nextId' = nextId + 1
        /\ retryCount' = 0
        /\ isGenerating' = FALSE
        /\ runs' = runs \ {run}
        /\ UNCHANGED <<mounted, text, timers, clicks, encodeCalls, genRuns,
                       finalError>>
        /\ UNCHANGED inputVars
        /\ UNCHANGED loaded
        /\ GenOnly

\* the catch block of generateQR, the image cleared
CatchClearsImage == qrCodeUrl' = NoUrl /\ UNCHANGED <<qrHistory, storage>>

\* the catch and finally blocks of generateQR set neither the image nor the
\* history, and write nothing to storage
CatchLeaves == UNCHANGED <<qrCodeUrl, qrHistory, storage>>

\* QRCode.toDataURL rejects: withRetry waits and tries again, or, after its
\* last attempt, throws into the catch block of generateQR, which schedules a
\* retry of generateQR or shows the final error
EncodeRejects ==
    \E run \in runs, e \in EncodeErrors :
        /\ run.frame.pc = "calling"
        /\ LET frame == WithRetryOnReject(run.frame, e) IN
           IF frame.pc = "waiting"
           THEN /\ runs' = (runs \ {run}) \cup {[run EXCEPT !.frame = frame]}
                /\ UNCHANGED <<retryCount, timers, finalError, isGenerating>>
                /\ UNCHANGED <<qrCodeUrl, qrHistory, storage>>
           ELSE /\ runs' = runs \ {run}
                /\ IF run.closure.retryCount < GenRetryLimit
                   THEN /\ retryCount' = retryCount + 1
                        /\ timers' = timers \cup {run.closure}
                        /\ UNCHANGED finalError
                   ELSE /\ finalError' = finalError \cup {run.closure.click}
                        /\ UNCHANGED <<retryCount, timers>>
                /\ isGenerating' = FALSE
                /\ CatchLeaves
        /\ UNCHANGED <<mounted, text, nextId, clicks, encodeCalls, genRuns>>
        /\ UNCHANGED inputVars
        /\ UNCHANGED noteVars
        /\ GenOnly

\* the backoff timer of a run's withRetry fires: the next attempt's encode
\* is invoked
GenBackoffElapses ==
    \E run \in runs :
        /\ run.frame.pc = "waiting"
        /\ runs' = (runs \ {run})
                      \cup {[run EXCEPT !.frame = WithRetryOnTimeout(run.frame)]}
        /\ encodeCalls' = [encodeCalls EXCEPT ![run.closure.click] = @ + 1]
        /\ UNCHANGED <<mounted, text, qrCodeUrl, isGenerating, retryCount, qrHistory,
                       storage, timers, nextId, clicks, genRuns, finalError>>
        /\ UNCHANGED inputVars
        /\ UNCHANGED noteVars
        /\ GenOnly

\* setTimeout(() => generateQR(), 1000) fires: generateQR of the closure that
\* scheduled it runs again
RetryTimerFires ==
    \E cl \in timers :
        /\ TotalRuns < MaxRuns
        /\ timers' = timers \ {cl}
        /\ EnterGenerateQR(cl)
        /\ UNCHANGED <<mounted, text, qrCodeUrl, qrHistory, storage, nextId, clicks,
                       finalError>>
        /\ UNCHANGED inputVars
        /\ UNCHANGED noteVars
        /\ GenOnly

NextGen ==
    \/ MountGenerator
    \/ SetText
    \/ SelectTemplate
    \/ DebounceFires
    \/ ClickGenerate
    \/ EncodeResolves
    \/ EncodeRejects
    \/ GenBackoffElapses
    \/ RetryTimerFires

\* the generator with its history panel in use
NextGenLoad ==
    \/ MountGenerator
    \/ SetText
    \/ SelectTemplate
    \/ LoadFromHistory
    \/ DebounceFires
    \/ ClickGenerate
    \/ EncodeResolves
    \/ EncodeRejects
    \/ GenBackoffElapses
    \/ RetryTimerFires

(***************************************************************************)
(* Home: the page-level diagnostics gate (src/src/app/page.tsx:8-172)      *)
(***************************************************************************)
\* an entry of the page's results: { name, status }
PageResult(k, status) == [name |-> CheckNames[k], status |-> status]

\* the statuses a check of the page can push without awaiting anything:
\* passed or failed for the five feature tests; failed for a media check when
\* getUserMedia does not exist; passed or failed for the notification check
\* when the permission is already decided or Notification does not exist
PushedAtOnce(k, media) ==
    CASE k \in MediaChecks -> IF media THEN {} ELSE {"failed"}
      [] k = BotCheck -> {}
      [] OTHER -> {"passed", "failed"}

\* whether the check awaits something: getUserMedia, requestPermission when
\* the permission is 'default', the two timers of the bot detection
MayAwait(k, media) ==
    CASE k \in MediaChecks -> media
      [] k = BotCheck -> TRUE
      [] k = BotCheck - 1 -> TRUE
      [] OTHER -> FALSE

\* where runDiagnostics can be at its next await when it goes on from check k
\* with the results acc: awaiting check j, the results pushed before it in
\* results
RECURSIVE RunToAwait(_, _, _)
RunToAwait(k, acc, media) ==
    (IF MayAwait(k, media) THEN {[at |-> k, results |-> acc]} ELSE {})
        \cup UNION {RunToAwait(k + 1, Append(acc, PageResult(k, st)), media) :
                        st \in PushedAtOnce(k, media)}

\* the positions of the page: the auto-run timer pending (or cleared), a check
\* awaited, the bot detection's second timer, the two timers after the
\* results are stored, and the end
PagePcs == {"autoRun", "cleared", "await", "botMouse", "stored", "complete", "dismissed"}

\* pagePc while check k is awaited
Awaiting(k) == [pc |-> "await", at |-> k]
PageAt(pc) == [pc |-> pc, at |-> 0]

PageIdleInit ==
    /\ pageMounted = TRUE
    /\ showDiagnostics = TRUE
    /\ diagnosticsComplete = FALSE
    /\ diagnosticResults = <<>>
    /\ pagePc = PageAt("autoRun")
    /\ pageResults = <<>>
    /\ hasMediaDevices = TRUE

PageOnly == UNCHANGED <<retryVars, diagVars, genVars, fnVars, storeVars, scanVars, utilVars>>

\* runDiagnostics goes on from check k with the results acc, up to its next
\* await
PageGoOn(k, acc) ==
    \E next \in RunToAwait(k, acc, hasMediaDevices) :
        /\ pagePc' = Awaiting(next.at)
        /\ pageResults' = next.results

\* the 1000 ms timer of the mount effect fires: runDiagnostics() runs up to
\* its first await
AutoRunTimerFires ==
    /\ pagePc = PageAt("autoRun")
    /\ PageGoOn(1, <<>>)
    /\ UNCHANGED <<pageMounted, showDiagnostics, diagnosticsComplete, diagnosticResults,
                   hasMediaDevices>>
    /\ PageOnly

\* Home is unmounted: the effect's cleanup clears the auto-run timer if it is
\* pending; a runDiagnostics under way goes on, its state updates ignored
UnmountPage ==
    /\ pageMounted
    /\ pageMounted' = FALSE
    /\ pagePc' = IF pagePc = PageAt("autoRun") THEN PageAt("cleared") ELSE pagePc
    /\ UNCHANGED <<showDiagnostics, diagnosticsComplete, diagnosticResults, pageResults,
                   hasMediaDevices>>
    /\ PageOnly

\* getUserMedia of the camera or microphone block settles: resolved (the
\* tracks are stopped) passed, NotAllowedError failed, NotFoundError skipped,
\* any other error failed
PageMediaSettles ==
    /\ pagePc.pc = "await"
    /\ pagePc.at \in MediaChecks
    /\ \E st \in Terminal :
          PageGoOn(pagePc.at + 1, Append(pageResults, PageResult(pagePc.at, st)))
    /\ UNCHANGED <<pageMounted, showDiagnostics, diagnosticsComplete, diagnosticResults,
                   hasMediaDevices>>
    /\ PageOnly

\* Notification.requestPermission() settles: 'granted' passed, anything else
\* or a rejection failed
PagePermissionSettles ==
    /\ pagePc = Awaiting(BotCheck - 1)
    /\ \E st \in {"passed", "failed"} :
          PageGoOn(BotCheck, Append(pageResults, PageResult(BotCheck - 1, st)))
    /\ UNCHANGED <<pageMounted, showDiagnostics, diagnosticsComplete, diagnosticResults,
                   hasMediaDevices>>
    /\ PageOnly

\* the 10 ms timer of the bot detection fires: the mousemove listener is
\* added and the 100 ms timer set
PageBotTimingDone ==
    /\ pagePc = Awaiting(BotCheck)
    /\ pagePc' = PageAt("botMouse")
    /\ UNCHANGED <<pageMounted, showDiagnostics, diagnosticsComplete, diagnosticResults,
                   pageResults, hasMediaDevices>>
    /\ PageOnly

\* setDiagnosticResults(results) with the bot detection's result pushed,
\* leaving a prefix of the results out
StoreAllButLast(all) == SubSeq(all, 1, Len(all) - 1)

\* setDiagnosticResults(results)
StoreResults(all) == all

\* the 100 ms timer of the bot detection fires: the five heuristics give the
\* last result, the results are stored (if Home is still mounted) and the
\* 100 ms timer of the completion is set
PageBotDone ==
    /\ pagePc = PageAt("botMouse")
    /\ \E h \in HeuristicArrays :
          LET all == Append(pageResults, PageResult(BotCheck, BotResult(h).status)) IN
          /\ pageResults' = all
          /\ diagnosticResults' = IF pageMounted THEN StoreResults(all)
                                  ELSE diagnosticResults
    /\ pagePc' = PageAt("stored")
    /\ UNCHANGED <<pageMounted, showDiagnostics, diagnosticsComplete, hasMediaDevices>>
    /\ PageOnly

\* the 100 ms timer fires: setDiagnosticsComplete(true), and the 2500 ms
\* timer is set
CompleteTimerFires ==
    /\ pagePc = PageAt("stored")
    /\ diagnosticsComplete' = (pageMounted \/ diagnosticsComplete)
    /\ pagePc' = PageAt("complete")
    /\ UNCHANGED <<pageMounted, showDiagnostics, diagnosticResults, pageResults,
                   hasMediaDevices>>
    /\ PageOnly

\* the 2500 ms timer fires: setShowDiagnostics(false), the main interface is
\* rendered
DismissTimerFires ==
    /\ pagePc = PageAt("complete")
    /\ showDiagnostics' = (showDiagnostics /\ ~pageMounted)
    /\ pagePc' = PageAt("dismissed")
    /\ UNCHANGED <<pageMounted, diagnosticsComplete, diagnosticResults, pageResults,
                   hasMediaDevices>>
    /\ PageOnly

NextPage ==
    \/ AutoRunTimerFires
    \/ UnmountPage
    \/ PageMediaSettles
    \/ PagePermissionSettles
    \/ PageBotTimingDone
    \/ PageBotDone
    \/ CompleteTimerFires
    \/ DismissTimerFires

(***************************************************************************)
(* QRScanner (src/src/components/QRScanner.tsx:10-71; src/unnamed/part_001 *)
(* differs by an early return that creates no scanner and by log output)   *)
(***************************************************************************)
\* the QrScanner instances one session may create
MaxScanners == 3

\* decoded payloads: text that sanitize.text would change, and plain text
RawData == {<<"<", "b", ">", "j", "a", "v", "a", "s", "c", "r", "i", "p", "t", ":">>,
            <<"h", "i">>}

NoScanResult == <<"null">>
NoScanError == ""
NoDecode == [by |-> 0, data |-> NoScanResult]

\* the names start() may reject with
StartErrorNames == {"NotAllowedError", "NotFoundError", "AbortError"}

\* the message of the catch block of startScanning
StartErrorMessage(name) ==
    CASE name = "NotAllowedError" ->
            "Camera access denied. Please allow camera permissions and try again."
      [] name = "NotFoundError" -> "No camera found on this device."
      [] OTHER -> "Failed to start camera. Please try again."

\* new QrScanner(...) followed by start(): the promise of start is pending,
\* no frame is scanned yet
NewScanner == [pending |-> TRUE, playing |-> FALSE, destroyed |-> FALSE]

ScanIdleInit ==
    /\ scanMounted = TRUE
    /\ isScanning = FALSE
    /\ scanResult = NoScanResult
    /\ scanError = NoScanError
    /\ scannerRef = 0
    /\ instances = <<>>
    /\ lastDecode = NoDecode

ScanOnly == UNCHANGED <<retryVars, diagVars, genVars, fnVars, storeVars, pageVars, utilVars>>

\* a state setter of the component: ignored once it is unmounted
SetState(current, value) == IF scanMounted THEN value ELSE current

\* stop() and destroy() on the instance numbered i (destroy stops it too)
StopAndDestroy(all, i) ==
    [all EXCEPT ![i].playing = FALSE, ![i].destroyed = TRUE]

\* stopScanning: what it does to the instances
StopScanning(all, ref) == IF ref # 0 THEN StopAndDestroy(all, ref) ELSE all

\* a click on Start Scanning, rendered while isScanning is false:
\* startScanning up to its await
ClickStart ==
    /\ scanMounted /\ ~isScanning
    /\ Len(instances) < MaxScanners
    /\ scanError' = NoScanError
    /\ scanResult' = NoScanResult
    /\ instances' = Append(instances, NewScanner)
    /\ scannerRef' = Len(instances) + 1
    /\ lastDecode' = NoDecode
    /\ UNCHANGED <<scanMounted, isScanning>>
    /\ ScanOnly

\* the promise of start() of instance i resolves: the rest of the try block.
\* An instance destroyed in the meantime does not play.
StartResolves ==
    /\ \E i \in DOMAIN instances :
          /\ instances[i].pending
          /\ instances' = [instances EXCEPT ![i].pending = FALSE,
                                            ![i].playing = ~instances[i].destroyed]
    /\ isScanning' = SetState(isScanning, TRUE)
    /\ UNCHANGED <<scanMounted, scanResult, scanError, scannerRef, lastDecode>>
    /\ ScanOnly

\* the promise of start() of instance i rejects: the catch block
StartRejects ==
    /\ \E i \in DOMAIN instances, name \in StartErrorNames :
          /\ instances[i].pending
          /\ instances' = [instances EXCEPT ![i].pending = FALSE]
          /\ scanError' = SetState(scanError, StartErrorMessage(name))
    /\ UNCHANGED <<scanMounted, isScanning, scanResult, scannerRef, lastDecode>>
    /\ ScanOnly

\* instance i, playing, decodes a code: the callback given to its constructor
Decode ==
    /\ \E i \in DOMAIN instances, data \in RawData :
          /\ instances[i].playing
          /\ scanResult' = SetState(scanResult, data)
          /\ lastDecode' = [by |-> i, data |-> data]
    /\ instances' = StopScanning(instances, scannerRef)
    /\ scannerRef' = 0
    /\ isScanning' = SetState(isScanning, FALSE)
    /\ UNCHANGED <<scanMounted, scanError>>
    /\ ScanOnly

\* a click on Stop Scanning, rendered while isScanning is true
ClickStop ==
    /\ scanMounted /\ isScanning
    /\ instances' = StopScanning(instances, scannerRef)
    /\ scannerRef' = 0
    /\ isScanning' = FALSE
    /\ UNCHANGED <<scanMounted, scanResult, scanError, lastDecode>>
    /\ ScanOnly

\* the component unmounts (the other tab is chosen): the effect's cleanup
UnmountScanner ==
    /\ scanMounted
    /\ scanMounted' = FALSE
    /\ instances' = IF scannerRef # 0 THEN StopAndDestroy(instances, scannerRef)
                    ELSE instances
    /\ UNCHANGED <<isScanning, scanResult, scanError, scannerRef, lastDecode>>
    /\ ScanOnly

NextScan ==
    \/ ClickStart
    \/ StartResolves
    \/ StartRejects
    \/ Decode
    \/ ClickStop
    \/ UnmountScanner

(***************************************************************************)
(* utils.debounce and utils.throttle (src/src/utils/validation.ts:331-355) *)
(* over a clock.  A timer set with setTimeout(f, d) runs f once, d or more *)
(* after it was set: the browser may run it late, never early.             *)
(***************************************************************************)
\* the last instant of the clock
MaxTime == 5
\* the largest wait and limit tried
MaxWait == 2
\* the calls made to a wrapped function
MaxCalls == 3

\* the argument lists a wrapped function is called with
CallArgs == {<<"a">>, <<"b">>}

UtilIdleInit ==
    /\ now = 0
    /\ debWait = MaxWait
    /\ debTimers = {}
    /\ debCalls = <<>>
    /\ debRuns = <<>>
    /\ thrLimit = MaxWait
    /\ inThrottle = FALSE
    /\ thrTimers = {}
    /\ thrCalls = <<>>

UtilOnly ==
    UNCHANGED <<retryVars, diagVars, genVars, fnVars, storeVars, pageVars, scanVars>>

\* time passes
Tick ==
    /\ now < MaxTime
    /\ now' = now + 1
    /\ UNCHANGED <<debWait, debTimers, debCalls, debRuns,
                   thrLimit, inThrottle, thrTimers, thrCalls>>
    /\ UtilOnly

\* clearTimeout(timeout) left out: the pending timers stay
ClearNothing(pending) == pending

\* clearTimeout(timeout): timeout is the one timer the function can have
\* pending, the one set by the call before
ClearTimeout(pending) == {}

\* a call of the debounced function with args: the pending timer is cleared
\* and a timer that calls func(...args) is set
DebouncedCall ==
    /\ Len(debCalls) < MaxCalls
    /\ now + debWait <= MaxTime
    /\ \E args \in CallArgs :
          /\ debCalls' = Append(debCalls, [at |-> now, args |-> args])
          /\ debTimers' = ClearTimeout(debTimers)
                            \cup {[due |-> now + debWait, args |-> args,
                                   call |-> Len(debCalls) + 1]}
    /\ UNCHANGED <<now, debWait, debRuns, thrLimit, inThrottle, thrTimers, thrCalls>>
    /\ UtilOnly

\* a timer of the debounced function fires: func(...args)
DebounceTimerFires ==
    /\ \E timer \in debTimers :
          /\ timer.due <= now
          /\ debTimers' = debTimers \ {timer}
          /\ debRuns' = Append(debRuns, [at |-> now, args |-> timer.args,
                                         call |-> timer.call])
    /\ UNCHANGED <<now, debWait, debCalls, thrLimit, inThrottle, thrTimers, thrCalls>>
    /\ UtilOnly

NextDebounce ==
    \/ DebouncedCall
    \/ DebounceTimerFires
    \/ Tick

\* the throttled function with inThrottle never set
OpenWindowNever(flag) == flag

\* inThrottle = true
OpenWindow(flag) == TRUE

\* a call of the throttled function with args: while inThrottle is not set,
\* func(...args) runs (and returns), inThrottle is set and a timer that
\* resets it is set; otherwise nothing happens
ThrottledCall ==
    /\ Len(thrCalls) < MaxCalls
    /\ now + thrLimit <= MaxTime
    /\ \E args \in CallArgs :
          thrCalls' = Append(thrCalls, [at |-> now, args |-> args, ran |-> ~inThrottle])
    /\ inThrottle' = IF ~inThrottle THEN OpenWindow(inThrottle) ELSE inThrottle
    /\ thrTimers' = IF ~inThrottle THEN thrTimers \cup {now + thrLimit} ELSE thrTimers
    /\ UNCHANGED <<now, debWait, debTimers, debCalls, debRuns, thrLimit>>
    /\ UtilOnly

\* a timer of the throttled function fires: inThrottle = false
ThrottleTimerFires ==
    /\ \E due \in thrTimers :
          /\ due <= now
          /\ thrTimers' = thrTimers \ {due}
    /\ inThrottle' = FALSE
    /\ UNCHANGED <<now, debWait, debTimers, debCalls, debRuns, thrLimit, thrCalls>>
    /\ UtilOnly

NextThrottle ==
    \/ ThrottledCall
    \/ ThrottleTimerFires
    \/ Tick

(***************************************************************************)
(* The specifications                                                      *)
(***************************************************************************)
InitRetry == RetryIdleInit /\ DiagIdleInit /\ GenIdleInit /\ FnIdleInit /\ StoreIdleInit /\ PageIdleInit /\ ScanIdleInit /\ UtilIdleInit
SpecRetry == InitRetry /\ [][NextRetry]_vars

InitDiag == RetryIdleInit /\ DiagIdleInit /\ GenIdleInit /\ FnIdleInit /\ StoreIdleInit /\ PageIdleInit /\ ScanIdleInit /\ UtilIdleInit
SpecDiag == InitDiag /\ [][NextDiag]_vars /\ WF_vars(NextDiag)

\* the component is constructed with whatever an earlier session left in storage
InitGen ==
    /\ RetryIdleInit /\ DiagIdleInit /\ FnIdleInit /\ StoreIdleInit /\ PageIdleInit /\ ScanIdleInit /\ UtilIdleInit
    /\ \E item \in StoredItems : GenInitWith(item)
SpecGen == InitGen /\ [][NextGen]_vars
SpecGenLoad == InitGen /\ [][NextGenLoad]_vars

\* one call of a sanitizer, validator or formatter, on any of the inputs
InitFn ==
    /\ RetryIdleInit /\ DiagIdleInit /\ GenIdleInit /\ StoreIdleInit /\ PageIdleInit /\ ScanIdleInit /\ UtilIdleInit
    /\ arg \in Inputs
    /\ applied = "none"
    /\ opts = NoOptions
    /\ ret = NoRet
SpecFn == InitFn /\ [][NextFn]_vars

\* calls of safeLocalStorage in any order, on whatever the storage held
InitStore ==
    /\ RetryIdleInit /\ DiagIdleInit /\ GenIdleInit /\ FnIdleInit /\ PageIdleInit /\ ScanIdleInit /\ UtilIdleInit
    /\ localStorage \in [Keys -> ItemsFound]
    /\ storeCall = NoStoreCall
    /\ written = [k \in Keys |-> Unknown]
SpecStore == InitStore /\ [][NextStore]_vars

\* Home from its first render, in a browser with or without getUserMedia; the
\* timers runDiagnostics sets after its last await always fire, what it
\* awaits before may never settle
InitPage ==
    /\ RetryIdleInit /\ DiagIdleInit /\ GenIdleInit /\ FnIdleInit /\ StoreIdleInit /\ ScanIdleInit /\ UtilIdleInit
    /\ pageMounted = TRUE
    /\ showDiagnostics = TRUE
    /\ diagnosticsComplete = FALSE
    /\ diagnosticResults = <<>>
    /\ pagePc = PageAt("autoRun")
    /\ pageResults = <<>>
    /\ hasMediaDevices \in BOOLEAN
SpecPage ==
    /\ InitPage
    /\ [][NextPage]_vars
    /\ WF_vars(CompleteTimerFires)
    /\ WF_vars(DismissTimerFires)

\* QRScanner from its first render, under any clicks, start outcomes, decodes
\* and an unmount
InitScan ==
    /\ RetryIdleInit /\ DiagIdleInit /\ GenIdleInit /\ FnIdleInit /\ StoreIdleInit
    /\ PageIdleInit /\ ScanIdleInit /\ UtilIdleInit
SpecScan == InitScan /\ [][NextScan]_vars

\* a function debounced with some wait, called at any instants; time passes
\* and a timer that is due fires in the end
InitDebounce ==
    /\ RetryIdleInit /\ DiagIdleInit /\ GenIdleInit /\ FnIdleInit /\ StoreIdleInit
    /\ PageIdleInit /\ ScanIdleInit
    /\ debWait \in 1..MaxWait
    /\ thrLimit = MaxWait
    /\ now = 0
    /\ debTimers = {}
    /\ debCalls = <<>>
    /\ debRuns = <<>>
    /\ inThrottle = FALSE
    /\ thrTimers = {}
    /\ thrCalls = <<>>
SpecDebounce ==
    /\ InitDebounce
    /\ [][NextDebounce]_vars
    /\ WF_vars(Tick)
    /\ WF_vars(DebounceTimerFires)

\* a function throttled with some limit, called at any instants
InitThrottle ==
    /\ RetryIdleInit /\ DiagIdleInit /\ GenIdleInit /\ FnIdleInit /\ StoreIdleInit
    /\ PageIdleInit /\ ScanIdleInit
    /\ debWait = MaxWait
    /\ thrLimit \in 1..MaxWait
    /\ now = 0
    /\ debTimers = {}
    /\ debCalls = <<>>
    /\ debRuns = <<>>
    /\ inThrottle = FALSE
    /\ thrTimers = {}
    /\ thrCalls = <<>>
SpecThrottle ==
    /\ InitThrottle
    /\ [][NextThrottle]_vars
    /\ WF_vars(Tick)
    /\ WF_vars(ThrottleTimerFires)

(***************************************************************************)
(* Properties of withRetry (checked under SpecRetry)                       *)
(***************************************************************************)
Last(log) == log[Len(log)]
Failures(log) == {i \in DOMAIN log : ~log[i].ok}

\* C1: when the operation fails on its first k attempts (k < maxRetries) and
\* then succeeds, withRetry resolves with that success value, has invoked the
\* operation exactly k+1 times (no invocation follows the success) and has
\* made exactly k backoff waits, the i-th of them delay * 2^(i-1) long.
C1_SucceedsAfterFailures ==
    /\ \A i \in 1..(Len(opLog) - 1) : ~opLog[i].ok
    /\ (opLog # <<>> /\ Last(opLog).ok) =>
          LET k == Len(opLog) - 1 IN
          /\ k < w.maxRetries
          /\ w.pc = "resolved"
          /\ w.settled = Last(opLog).val
          /\ Cardinality(Failures(opLog)) = k
          /\ waitLog = [i \in 1..k |-> w.delay * (2 ^ (i - 1))]
    /\ w.pc = "resolved" => opLog # <<>> /\ Last(opLog).ok

\* C1 witness: two failures, then a success, with maxRetries = 3
C1_Witness ==
    /\ w.pc = "resolved"
    /\ w.maxRetries = 3
    /\ Len(opLog) = 3
    /\ Len(waitLog) = 2

\* C2: when the operation fails on every attempt and maxRetries = n >= 1,
\* withRetry invokes it exactly n times, waits exactly n-1 times (not after
\* the n-th failure) and rejects with the error of the n-th attempt itself.
C2_RejectsWithLastError ==
    LET n == w.maxRetries IN
    /\ n >= 1 => Len(opLog) <= n
    /\ (n >= 1 /\ Len(opLog) = n /\ Failures(opLog) = DOMAIN opLog) =>
          /\ w.pc = "rejected"
          /\ w.settled = opLog[n].val
          /\ Len(waitLog) = n - 1
    /\ (n >= 1 /\ w.pc = "rejected") =>
          /\ Len(opLog) = n
          /\ Failures(opLog) = DOMAIN opLog
    /\ (n >= 1 /\ w.pc = "waiting") => Len(opLog) < n

\* C2 witness: three failures with maxRetries = 3, the third error another one
\* than the first
C2_Witness ==
    /\ w.pc = "rejected"
    /\ w.maxRetries = 3
    /\ Len(opLog) = 3
    /\ opLog[1].val # opLog[3].val

(***************************************************************************)
(* Properties of the diagnostic battery (checked under SpecDiag)           *)
(***************************************************************************)
\* the shape of the result list once the battery is complete
CompleteShape ==
    /\ Len(results) = NumChecks
    /\ \A j \in 1..NumChecks :
          /\ results[j].name = CheckNames[j]
          /\ results[j].status \in Terminal
    /\ pendingCount = 0
    /\ passedCount + failedCount + skippedCount = NumChecks

\* C4: every check's work settling in the end (the fairness of SpecDiag), a
\* run of the battery reaches completion, and at completion the list has one
\* entry per registered check, each terminal, none pending.
C4_RunCompletes == <>isComplete /\ [](isComplete => CompleteShape)

\* C4 witness: a completed run with a failed and a skipped entry
C4_Witness ==
    /\ isComplete
    /\ ~isRunning
    /\ failedCount >= 1
    /\ skippedCount >= 1

\* C5: the checks are invoked in the order of the list, none skipped or
\* repeated; at most one is in progress; and when a check is invoked every
\* check before it has settled and has its result recorded.
C5_OneAtATimeInOrder ==
    /\ Cardinality(inFlight) <= 1
    /\ \A j \in 1..Len(startLog) : startLog[j] = j
    /\ \A j \in 1..Len(startLog) :
          \A b \in 1..(startLog[j] - 1) :
              /\ b \notin inFlight
              /\ b <= Len(results)
              /\ results[b].status \in Terminal
    /\ \A c \in inFlight : c = Last(startLog) /\ results[c].status = "pending"

\* C5 witness: the microphone check in flight, the camera check recorded
C5_Witness ==
    /\ inFlight = {7}
    /\ results[6].status = "passed"
    /\ results[7].status = "pending"

\* the entries whose check has settled: those before di, and di itself once
\* runDiagnostics is past its await
Settled == {j \in 1..NumChecks : j < di \/ (j = di /\ dpc # "awaitCheck")}

\* C6 (state part): once the run has started the list has an entry per check,
\* and every entry whose check has not settled is pending: in particular all
\* are pending while the first check executes.
PendingUntilSettled ==
    dpc # "unmounted" =>
        /\ Len(results) = NumChecks
        /\ \A j \in 1..NumChecks : j \notin Settled => results[j].status = "pending"
        /\ \A j \in 1..NumChecks : j \in Settled => results[j].status \in Terminal

\* C6 (step part): a step changes an entry only from pending to a terminal
\* status; a terminal entry is left as it is.
OneWay ==
    \A j \in DOMAIN results :
        /\ results[j].status # "pending" => results'[j] = results[j]
        /\ results'[j] # results[j] => results'[j].status \in Terminal

\* C6: every entry is pending before any check has settled, and each entry's
\* status changes once, from pending to passed, failed or skipped, and never
\* again.
C6_PendingThenTerminalOnce == []PendingUntilSettled /\ [][OneWay]_vars

\* C6 witness: the first entry terminal, the second check executing
C6_Witness ==
    /\ dpc = "awaitCheck"
    /\ di = 2
    /\ results[1].status = "failed"
    /\ results[2].status = "pending"

\* C7: a check that throws gets a failed result whose details are the thrown
\* Error's message ('Unknown error' when what was thrown is no Error), the
\* next check of the list is invoked all the same, and the battery completes
\* with every check invoked.
C7_ThrowRecordedAndBatteryGoesOn ==
    /\ \A t \in 1..Len(thrown) :
          LET c == thrown[t].check
              e == thrown[t].error
          IN  /\ results[c].name = CheckNames[c]
              /\ results[c].status = "failed"
              /\ results[c].details = (IF e.isError THEN e.message ELSE "Unknown error")
              /\ c < NumChecks => \E j \in 1..Len(startLog) : startLog[j] = c + 1
              /\ c = NumChecks => isComplete
    /\ isComplete => startLog = [j \in 1..NumChecks |-> j]

\* C7 witness: the Service Workers check threw an Error and the battery
\* completed
C7_Witness ==
    /\ isComplete
    /\ \E t \in 1..Len(thrown) : thrown[t].check = 3 /\ thrown[t].error.isError
    /\ results[3].details = "boom"

\* the status the claim gives k passing heuristics out of five
ClaimedBotStatus(k) ==
    IF k \in {4, 5} THEN "passed" ELSE IF k \in {2, 3} THEN "skipped" ELSE "failed"

\* C8: k passing heuristics out of 5 give passed for k = 4, 5, skipped for
\* k = 2, 3 and failed for k = 0, 1.
C8_BotScoreThresholds ==
    botPassing # <<>> =>
        /\ botPassing[1] \in 0..5
        /\ results[BotCheck].status = ClaimedBotStatus(botPassing[1])

\* C8 witness: exactly three heuristics passed and the result is skipped
C8_Witness ==
    /\ botPassing = <<3>>
    /\ results[BotCheck].status = "skipped"

\* the kinds of the tracks that are live
LiveKinds == {t.kind : t \in liveTracks}

\* C19: the camera and the microphone check stop every track they acquire
\* before they return: tracks are live only while the check that acquired
\* them is awaited, never a video and an audio track at once, and none once
\* the check has its result or the battery is complete.
C19_StreamsReleased ==
    /\ Cardinality(LiveKinds) <= 1
    /\ liveTracks # {} =>
          /\ dpc = "awaitCheck"
          /\ di \in MediaChecks
          /\ inFlight = {di}
          /\ LiveKinds = {MediaKind(di)}
          /\ results[di].status = "pending"
    /\ liveTracks \subseteq acquired
    /\ isComplete => liveTracks = {}

\* C19 witness: the battery is complete, both checks passed, each on a
\* stream of two tracks, and no track is live
C19_Witness ==
    /\ isComplete
    /\ Cardinality(acquired) = 4
    /\ results[CameraCheck].status = "passed"
    /\ results[MicrophoneCheck].status = "passed"
    /\ liveTracks = {}

(***************************************************************************)
(* Properties of the generator (checked under SpecGen)                     *)
(***************************************************************************)
\* the capacity of the history list ("Keep last 10")
HistoryCapacity == 10

\* C3: one click causes a bounded number of encode calls: the click's
\* generateQR and the retries the `retryCount < 2` test allows, each making
\* withRetry's maxRetries attempts.
C3_RetriesBounded ==
    \A c \in 1..MaxClicks :
        /\ genRuns[c] <= 1 + GenRetryLimit
        /\ encodeCalls[c] <= (1 + GenRetryLimit) * GenMaxRetries

\* the generateQR invocation that ends in the step
EndingRun == CHOOSE run \in runs : run \notin runs'

\* a step in which saveToHistory runs
SavesToHistory == nextId' # nextId

\* C9: after an append by saveToHistory, whatever the list was, the list in
\* memory has at most 10 entries, and so has the list written to storage.
C9_HistoryAtMostTen ==
    [][SavesToHistory =>
          /\ Len(qrHistory') <= HistoryCapacity
          /\ storage' # storage =>
                /\ storage'.kind = "array"
                /\ Len(storage'.items) <= HistoryCapacity]_vars

\* C9 witness: an entry appended to a list loaded from storage that was at
\* capacity or beyond, and written
C9_Witness ==
    /\ nextId = 2
    /\ Len(qrHistory) = HistoryCapacity
    /\ qrHistory[HistoryCapacity].id = 0 - 9
    /\ storage = ArrayItem(qrHistory)
    /\ clicks = 1

\* C10: an append puts the new entry first and keeps behind it, in their
\* order, the first 9 entries of the list it appends to: a list of 10 stays
\* at 10 and loses its 10th entry, a shorter list grows by one and loses none.
C10_AppendNewestFirst ==
    [][SavesToHistory =>
          LET prev == EndingRun.closure.qrHistory
              kept == Min(Len(prev), HistoryCapacity - 1)
          IN  /\ Len(qrHistory') = kept + 1
              /\ qrHistory'[1].id = nextId
              /\ qrHistory'[1].content = EndingRun.formattedContent
              /\ \A i \in 1..Len(prev) : prev[i] # qrHistory'[1]
              /\ \A i \in 1..kept : qrHistory'[i + 1] = prev[i]
              /\ \A i \in (kept + 1)..Len(prev) :
                    \A j \in 1..Len(qrHistory') : qrHistory'[j] # prev[i]
              /\ Len(prev) = HistoryCapacity => Len(qrHistory') = HistoryCapacity
              /\ Len(prev) < HistoryCapacity => Len(qrHistory') = Len(prev) + 1]_vars

\* C10 witness: an entry appended to a list of 10 (which storage still holds,
\* the write having failed): the old 9th entry is now the last
C10_Witness ==
    /\ nextId = 2
    /\ Len(qrHistory) = HistoryCapacity
    /\ qrHistory[1].id = 1
    /\ qrHistory[HistoryCapacity].id = 0 - 9
    /\ storage.kind = "array"
    /\ Len(storage.items) = HistoryCapacity
    /\ storage.items[HistoryCapacity].id = 0 - HistoryCapacity

\* the number of successful generations so far
Generated == nextId - 1

\* C11: after k successful generations, the retried ones included, the
\* history holds the min(k, 10) most recent generated entries, newest first:
\* no entry is lost to an append made on a stale list.
C11_NoEntryLostToStaleList ==
    LET k == Generated
        n == Min(k, HistoryCapacity)
    IN  /\ Len(qrHistory) >= n
        /\ \A i \in 1..n : qrHistory[i].id = k + 1 - i

\* C12: whenever an encode is in flight, the text it was made from is valid
\* under the validator of the template it was formatted with.
C12_EncodeOnlyValidated ==
    \A run \in runs :
        run.frame.pc = "calling" =>
            TemplateValidation(run.closure.template, run.closure.text).isValid

\* a step in which an encode fails: a run whose encode was in flight goes on
\* to wait or ends, and nothing is saved
EncodeFails ==
    /\ nextId' = nextId
    /\ \E run \in runs : run.frame.pc = "calling" /\ run \notin runs'

\* a step in which a generateQR run succeeds
GenerationSucceeds ==
    /\ nextId' = nextId + 1
    /\ \E run \in runs :
          /\ run.frame.pc = "calling"
          /\ run \notin runs'
          /\ qrCodeUrl' = DataUrl(run.formattedContent)

\* C13: a step in which an encode fails leaves the history list, the stored
\* snapshot and the displayed image as they were; after the load at mount, the
\* list or the snapshot change only in a step in which a generation succeeds;
\* and an entry created in a step (its id was issued by no earlier step) is
\* the first of the list and that of a generation succeeding in the step.
C13_EntryOnlyBySuccess ==
    [][/\ EncodeFails => UNCHANGED <<qrHistory, storage, qrCodeUrl>>
       /\ (mounted /\ (qrHistory' # qrHistory \/ storage' # storage)) =>
             GenerationSucceeds
       /\ \A i \in DOMAIN qrHistory' :
             qrHistory'[i].id >= nextId =>
                 (GenerationSucceeds /\ i = 1 /\ qrHistory'[i].id = nextId)]_vars

\* C13 witness: a generation succeeded, the next click's three encodes failed
\* (its generateQR is scheduled for a retry), and list, snapshot and image are
\* still those of the success
C13_Witness ==
    /\ \E cl \in timers : cl.click = 2 /\ cl.qrHistory = qrHistory
    /\ Len(qrHistory) = 1
    /\ storage = ArrayItem(qrHistory)
    /\ qrCodeUrl = qrHistory[1].qrDataUrl
    /\ encodeCalls[2] = GenMaxRetries

(***************************************************************************)
(* Properties of the sanitizers, validators and formatters (checked under  *)
(* SpecFn)                                                                 *)
(***************************************************************************)
\* C14: sanitize.text applied to its own result changes nothing.
C14_SanitizeTextIdempotent ==
    applied = "sanitize.text" => SanitizeText(ret.str) = ret.str

\* the calls C15 is about: the class validators, and validate.text without a
\* customValidator of the caller's
ShapedCall ==
    \/ applied \in {"validate.url", "validate.email", "validate.phone",
                    "validate.wifi", "validate.contact"}
    \/ applied = "validate.text" /\ opts.customValidator = "none"

\* C15: a result of validate.text (no customValidator), url, email, phone,
\* wifi or contact is valid exactly when it has a sanitizedValue and no
\* error; a failing result has an error and no sanitizedValue.
C15_ResultShape ==
    ShapedCall =>
        LET r == ret.result IN
        /\ Len(r.error) <= 1
        /\ Len(r.sanitizedValue) <= 1
        /\ r.isValid <=> (r.sanitizedValue # <<>> /\ r.error = <<>>)
        /\ ~r.isValid => (r.error # <<>> /\ r.sanitizedValue = <<>>)

\* C15 witness: validate.contact failed on its phone part, with the phone
\* validator's error and no value
C15_Witness ==
    /\ applied = "validate.contact"
    /\ ret.result = Fail("Invalid phone: Invalid phone number format")

\* the parts of the wifi input as typed, and a part with ';' and '"' removed
\* and trimmed
WifiParts == Split(arg, ",")
Cleaned(part) == Trim(RemoveChars(part, {";", "\""}))
RecognizedSecurity(part) ==
    ToUpperCase(Cleaned(part)) \in {<<"W", "P", "A">>, <<"W", "P", "A", "2">>, <<"W", "P", "A", "3">>, <<"W", "E", "P">>, <<"N", "O", "N", "E">>}
TooFewParts == Fail("Please provide: NetworkName,Password,SecurityType")

\* C16 as stated: fewer than 3 parts fail with the 'Please provide' message;
\* 3 parts or more with a recognized security token succeed.
C16_WifiByPartsAndSecurity ==
    applied = "validate.wifi" =>
        /\ Len(WifiParts) < MinParts => ret.result = TooFewParts
        /\ (Len(WifiParts) >= MinParts /\ RecognizedSecurity(WifiParts[3]))
              => ret.result.isValid

\* C16, amended: fewer than 3 parts fail with the 'Please provide' message;
\* 3 parts or more succeed when the network name and the password (the first
\* two parts, ';' and '"' removed, trimmed) are not empty and the security
\* token is recognized, and fail otherwise.
C16_WifiNeedsNameAndPassword ==
    applied = "validate.wifi" =>
        /\ Len(WifiParts) < MinParts => ret.result = TooFewParts
        /\ Len(WifiParts) >= MinParts =>
              (ret.result.isValid <=>
                  /\ Cleaned(WifiParts[1]) # <<>>
                  /\ Cleaned(WifiParts[2]) # <<>>
                  /\ RecognizedSecurity(WifiParts[3]))
        /\ ret.result.isValid => ret.result = Ok(SanitizeWifi(arg))

\* C16 witness: three parts, the token in mixed case behind a blank, accepted
C16_Witness ==
    /\ applied = "validate.wifi"
    /\ arg = <<"a", ",", "a", ",", " ", "w", "P", "a", "2">>
    /\ ret.result.isValid

\* C17: the wifi and contact formatters return, for an input of 3 parts or
\* more, the WIFI: payload and the vCard built from the first three parts, and
\* the input itself for an input of fewer parts.
C17_FormatWifiAndContact ==
    LET parts == Split(arg, ",") IN
    /\ applied = "format.wifi" =>
          ret.str = (IF Len(parts) >= MinParts
                     THEN <<"W", "I", "F", "I", ":", "T", ":">> \o parts[3] \o <<";", "S", ":">> \o parts[1]
                              \o <<";", "P", ":">> \o parts[2] \o <<";", ";">>
                     ELSE arg)
    /\ applied = "format.contact" =>
          ret.str = (IF Len(parts) >= MinParts
                     THEN <<"B", "E", "G", "I", "N", ":", "V", "C", "A", "R", "D", "\n", "V", "E", "R", "S", "I", "O", "N", ":", "3", ".", "0", "\n", "F", "N", ":">> \o parts[1]
                              \o <<"\n", "T", "E", "L", ":">> \o parts[2]
                              \o <<"\n", "E", "M", "A", "I", "L", ":">> \o parts[3]
                              \o <<"\n", "E", "N", "D", ":", "V", "C", "A", "R", "D">>
                     ELSE arg)

\* C17 witness: a wifi input of four parts formatted from its first three
C17_Witness ==
    /\ applied = "format.wifi"
    /\ arg = <<"a", ",", "b", ",", "w", "e", "p", ",", "x">>
    /\ ret.str = <<"W", "I", "F", "I", ":", "T", ":", "w", "e", "p", ";", "S", ":", "a", ";", "P", ":", "b", ";", ";">>

\* the error of the first generic check of validate.text that fails on the
\* sanitized value s under options o, none when all pass
FirstGenericError(s, o) ==
    IF o.required /\ s = <<>> THEN <<"This field is required">>
    ELSE IF o.minLength # 0 /\ Len(s) < o.minLength
    THEN <<"Minimum length is " \o ToString(o.minLength) \o " characters">>
    ELSE IF o.maxLength # 0 /\ Len(s) > o.maxLength
    THEN <<"Maximum length is " \o ToString(o.maxLength) \o " characters">>
    ELSE IF o.pattern = "lettersOnly" /\ (s = <<>> \/ \E i \in DOMAIN s : s[i] \notin Letters)
    THEN <<"Invalid format">>
    ELSE <<>>

\* C20: validate.text checks required, minLength, maxLength, pattern in that
\* order; a failing one returns its error and the customValidator is not
\* called; when all pass the customValidator is called once, with the
\* sanitized value, and its result is what validate.text returns.
C20_GenericChecksThenCustom ==
    applied = "validate.text" =>
        LET s == SanitizeText(arg)
            failed == FirstGenericError(s, opts)
        IN  /\ failed # <<>> =>
                  /\ ret.result = Fail(failed[1])
                  /\ ret.calls = <<>>
            /\ (failed = <<>> /\ opts.customValidator # "none") =>
                  /\ ret.calls = <<s>>
                  /\ ret.result = CustomValidator(opts.customValidator, s)
            /\ (failed = <<>> /\ opts.customValidator = "none") =>
                  /\ ret.calls = <<>>
                  /\ ret.result = Ok(s)

\* C20 witness: a value too short and too long at once gets the minLength
\* error, and the caller's validator is not called
C20_Witness ==
    /\ applied = "validate.text"
    /\ opts.minLength = 4
    /\ opts.maxLength = 2
    /\ opts.customValidator = "rejectAll"
    /\ Len(SanitizeText(arg)) = 3
    /\ ret.result = Fail("Minimum length is 4 characters")
    /\ ret.calls = <<>>

(***************************************************************************)
(* Properties of safeLocalStorage                                          *)
(***************************************************************************)
\* the stored texts that cannot be deserialized: the empty text and the
\* corrupt ones
Undeserializable == {<<>>} \cup CorruptTexts

\* C18: no safeLocalStorage call lets an exception out; get returns the
\* default it was given when the key is missing, the read throws or the stored
\* text cannot be deserialized; set and remove return false when the storage
\* call throws and true otherwise; and a get whose read does not throw, made
\* after a successful set of a JSON value under the key (nothing written or
\* removed under it since), returns that value.
C18_StorageNeverThrows ==
    /\ ~storeCall.outcome.threw
    /\ storeCall.op = "get" =>
          /\ (\/ storeCall.threw
              \/ ~storeCall.item.present
              \/ storeCall.item.text \in Undeserializable)
                => storeCall.outcome.value = storeCall.value
          /\ (~storeCall.threw /\ written[storeCall.key].known)
                => storeCall.outcome.value = written[storeCall.key].value
    /\ storeCall.op \in {"set", "remove"} =>
          storeCall.outcome.value = JBool(~storeCall.threw)

\* a get returned the history list a set had stored, not the default, and
\* the set before it had overwritten a corrupt item
C18_Witness ==
    /\ storeCall.op = "get"
    /\ ~storeCall.threw
    /\ written[storeCall.key].known
    /\ storeCall.outcome.value = JArr(<<EntryValue, EntryValue>>)
    /\ storeCall.value = JArr(<<>>)
    /\ \E k \in Keys : localStorage[k].present /\ localStorage[k].text \in CorruptTexts

(***************************************************************************)
(* Properties of the generator: snapshot, overlap, reload                  *)
(***************************************************************************)
\* C21: in every step in which saveToHistory runs, the list in memory gets
\* the new entry first, the image of the generation is shown and the run
\* ends; when the write succeeded (no error toast) the item stored under
\* 'qrHistory' is the whole list in memory, and when it failed the stored item
\* stays as it was and the failure toast is shown.
C21_SnapshotIsWholeList ==
    [][nextId' = nextId + 1 =>
          /\ qrHistory' # <<>>
          /\ qrHistory'[1].id = nextId
          /\ qrCodeUrl' = qrHistory'[1].qrDataUrl
          /\ Cardinality(runs') = Cardinality(runs) - 1
          /\ finalError' = finalError
          /\ saveToast' = NoToast => storage' = ArrayItem(qrHistory')
          /\ saveToast' # NoToast =>
                (saveToast' = SaveFailedToast /\ storage' = storage)]_vars

\* C21 witness: the first generation's list was stored, the write of the
\* second failed: the list in memory has both entries, the stored one the
\* first only, and the second image is shown
C21_Witness ==
    /\ saveToast = SaveFailedToast
    /\ Len(qrHistory) = 2
    /\ storage = ArrayItem(Tail(qrHistory))
    /\ qrCodeUrl = qrHistory[1].qrDataUrl
    /\ ~isGenerating
    /\ runs = {}

\* the generateQR runs that have started and not finished: those awaiting
\* withRetry and those whose scheduled retry has not run yet
ActiveRuns == Cardinality(runs) + Cardinality(timers)

\* C25: at most one generateQR run is active, and isGenerating is true for as
\* long as one is, the time its retry is scheduled included.
C25_OneRunAtATime ==
    /\ ActiveRuns <= 1
    /\ ActiveRuns > 0 => isGenerating

\* C27: a generateQR run on the text loadFromHistory put in the input (not
\* edited since) encodes the content of the loaded entry.
C27_ReloadReproduces ==
    \A run \in runs :
        (loaded # <<>> /\ run.closure.text = loaded[1])
            => run.formattedContent = loaded[1]

(***************************************************************************)
(* Properties of the battery: phases and counts                            *)
(***************************************************************************)
\* the battery's phase, read from the two flags: idle 0, running 1, complete 2
BatteryPhase == IF isComplete THEN 2 ELSE IF isRunning THEN 1 ELSE 0

\* the sum of the four counts
CountsSum == passedCount + failedCount + skippedCount + pendingCount

\* the flags are never both true, and the battery is complete only with the
\* loop left, every result recorded and isRunning false
FlagsAgree ==
    /\ ~(isRunning /\ isComplete)
    /\ isComplete =>
          /\ dpc = "done"
          /\ Len(results) = NumChecks
          /\ \A j \in DOMAIN results : results[j].status \in Terminal

\* C22 as stated: the phase never goes back, the flags agree, and the four
\* counts add up to the number of checks in every state.
C22_PhasesAndCountsAlways ==
    /\ [](FlagsAgree /\ CountsSum = NumChecks)
    /\ [][BatteryPhase' >= BatteryPhase]_vars

\* C22: the phase never goes back, the flags agree, and the four counts add
\* up to the number of checks from the start of the run on; while the
\* battery is idle there are no results and every count is 0.
C22_PhasesAndCountsOnceStarted ==
    /\ [](/\ FlagsAgree
          /\ CountsSum = IF BatteryPhase = 0 THEN 0 ELSE NumChecks)
    /\ [][BatteryPhase' >= BatteryPhase]_vars

\* C22 witness: the battery is complete with checks passed, failed and
\* skipped
C22_Witness ==
    /\ isComplete
    /\ ~isRunning
    /\ pendingCount = 0
    /\ passedCount > 0
    /\ failedCount > 0
    /\ skippedCount > 0

(***************************************************************************)
(* Properties of withRetry: the number of invocations                      *)
(***************************************************************************)
\* the invocations of the operation so far: those settled and the one awaited
Invocations == Len(opLog) + IF w.pc = "calling" THEN 1 ELSE 0

\* C30: a withRetry call with maxRetries <= 0 has rejected with undefined
\* without invoking the operation; a call with maxRetries >= 1 has invoked it
\* at least once and at most maxRetries times.
C30_InvocationsWithinMaxRetries ==
    w.pc # "none" =>
        /\ w.maxRetries <= 0 =>
              (Invocations = 0 /\ w.pc = "rejected" /\ w.settled = Undefined)
        /\ w.maxRetries >= 1 =>
              (Invocations >= 1 /\ Invocations <= w.maxRetries)

\* C30 witness: a call with a negative maxRetries has rejected with undefined
C30_Witness ==
    /\ w.pc = "rejected"
    /\ w.maxRetries < 0
    /\ w.settled = Undefined
    /\ opLog = <<>>
    /\ waitLog = <<>>

(***************************************************************************)
(* Properties of the page-level gate                                       *)
(***************************************************************************)
\* the stored results are those of the nine checks, in order
AllResultsStored ==
    /\ Len(diagnosticResults) = NumChecks
    /\ \A k \in DOMAIN diagnosticResults :
          /\ diagnosticResults[k].name = CheckNames[k]
          /\ diagnosticResults[k].status \in Terminal

\* C23: the overlay is marked complete only with the results of all nine
\* checks stored; the main interface is shown only with the overlay marked
\* complete; and once runDiagnostics has passed its last await (every check
\* settled) the overlay of a mounted page is eventually dismissed.
C23_GateOpensAfterChecks ==
    /\ [](diagnosticsComplete => AllResultsStored)
    /\ [](~showDiagnostics => diagnosticsComplete)
    /\ (pagePc = PageAt("stored")) ~> (~showDiagnostics \/ ~pageMounted)

\* C23 witness: the main interface is shown, after a battery in which a
\* media check was skipped
C23_Witness ==
    /\ pageMounted
    /\ ~showDiagnostics
    /\ diagnosticsComplete
    /\ AllResultsStored
    /\ diagnosticResults[CameraCheck].status = "skipped"
    /\ pagePc = PageAt("dismissed")


(***************************************************************************)
(* Properties of QRScanner (checked under SpecScan)                        *)
(***************************************************************************)
PendingStarts == {i \in DOMAIN instances : instances[i].pending}
Undestroyed == {i \in DOMAIN instances : ~instances[i].destroyed}

\* C24: after a decode callback has run and no start is pending, the result
\* is the decoded string as it came, the instance that decoded is stopped
\* and destroyed, no instance is scanning, scannerRef is null and isScanning
\* is false (until Start is clicked again).
C24_DecodeStopsScanning ==
    (lastDecode.by # 0 /\ PendingStarts = {}) =>
        /\ scanMounted => scanResult = lastDecode.data
        /\ instances[lastDecode.by].destroyed
        /\ \A i \in DOMAIN instances : ~instances[i].playing
        /\ scannerRef = 0
        /\ scanMounted => ~isScanning

\* C26: at most one QrScanner instance that has not been destroyed exists
\* at any time.
C26_AtMostOneUndestroyed == Cardinality(Undestroyed) <= 1

(***************************************************************************)
(* Properties of utils.debounce (checked under SpecDebounce) and of        *)
(* utils.throttle (checked under SpecThrottle)                             *)
(***************************************************************************)
\* the invocations of func made for call k of the debounced function
RunsOf(k) == {r \in DOMAIN debRuns : debRuns[r].call = k}
\* call k is followed by a call of its burst (one less than wait after it)
FollowedInBurst(k) ==
    k < Len(debCalls) /\ debCalls[k + 1].at < debCalls[k].at + debWait
\* call k is the last of a burst that a later call has followed
BurstEndsAt(k) ==
    k < Len(debCalls) /\ debCalls[k + 1].at >= debCalls[k].at + debWait

\* func runs only for the last call of a burst, with the arguments of that
\* call, wait or more after it, before any further call, and once at most
DebounceRunsSafe ==
    \A r \in DOMAIN debRuns :
        LET k == debRuns[r].call IN
        /\ debRuns[r].args = debCalls[k].args
        /\ debRuns[r].at >= debCalls[k].at + debWait
        /\ ~FollowedInBurst(k)
        /\ k < Len(debCalls) => debCalls[k + 1].at >= debRuns[r].at
        /\ Cardinality(RunsOf(k)) = 1

\* the last call made so far is followed by a further call or by the one
\* run of func for it
LastCallServed ==
    \A k \in 1..MaxCalls :
        (Len(debCalls) = k) ~> (Len(debCalls) > k \/ Cardinality(RunsOf(k)) = 1)

\* C28 as stated: func runs only wait or more after a call that no call has
\* followed, and for every burst of calls (each less than wait after the one
\* before) func runs exactly once, with the arguments of the burst's last
\* call.
C28_OncePerBurst ==
    /\ []DebounceRunsSafe
    /\ LastCallServed
    /\ \A k \in 1..MaxCalls : BurstEndsAt(k) ~> (Cardinality(RunsOf(k)) = 1)

\* C28, amended: func runs only wait or more after a call that no call has
\* followed, at most once per burst and with the arguments of the burst's
\* last call; exactly once when no call is made before the timer of that
\* last call has fired (every call is followed by a further call or by the
\* run of func for it).
C28_OncePerBurstUnlessCleared ==
    /\ []DebounceRunsSafe
    /\ LastCallServed

\* a burst of two calls with different arguments, func run for the second
C28_Witness ==
    /\ Len(debCalls) >= 2
    /\ FollowedInBurst(1)
    /\ debCalls[1].args # debCalls[2].args
    /\ RunsOf(2) # {}

\* the calls of the throttled function that ran func
ThrottleRuns == {k \in DOMAIN thrCalls : thrCalls[k].ran}

=============================================================================
